---------------------------- MODULE Spec2Model ----------------------------
(***************************************************************************)
(* A model of the agentic pipeline framework:                              *)
(*   - AgentState        (agentic_pipeline/core/state.py)                  *)
(*   - AgentConfig       (agentic_pipeline/core/config.py)                 *)
(*   - AgentPipeline     (agentic_pipeline/core/pipeline.py)               *)
(*   - CompositeAgent    (agentic_pipeline/composition/composite.py)       *)
(*   - AgentRegistry     (agentic_pipeline/core/registry.py)               *)
(*                                                                         *)
(* Python objects are records, dictionaries are functions over a finite   *)
(* set of string keys, lists are sequences.  A method of an object is an  *)
(* operator from the object (and the arguments) to the object after the   *)
(* call; the actions apply these operators to the variables.               *)
(***************************************************************************)
EXTENDS Integers, Sequences, FiniteSets, TLC

VARIABLES
    state,      \* an AgentState object driven directly through its methods
    op,         \* the last AgentState method called on state: [name, arg, ret]
    pipeline,   \* an AgentPipeline: its agent, its status and the AgentState of its run
    agent_config,   \* an AgentConfig driven directly through its methods
    removed_types,  \* the condition types remove_terminal_condition was called with
    registry        \* an AgentRegistry

vars == <<state, op, pipeline, agent_config, removed_types, registry>>

-----------------------------------------------------------------------------
(* Bounds of the model *)

\* the longest history the AgentState actions build
MaxHist == 2

\* the largest max_iterations a pipeline's configuration is given
MaxIter == 3

\* the most passes through the loop body a pipeline makes
MaxPasses == 3

\* max_iterations of the agents a CompositeAgent's steps wrap
StepIter == 2

\* no configuration is given more terminal conditions than this
MaxConds == 3

\* dictionary keys and values the AgentState actions draw their inputs from
Keys == {"x", "y"}
Values == {1, 2}
Msgs == {"m"}

-----------------------------------------------------------------------------
(* Python dictionaries *)

\* {}
EmptyDict == [k \in {} |-> 0]

\* d[k] = v
DictSet(d, k, v) == [j \in DOMAIN d \cup {k} |-> IF j = k THEN v ELSE d[j]]

\* d.update(e)
DictUpdate(d, e) == [j \in DOMAIN d \cup DOMAIN e |-> IF j \in DOMAIN e THEN e[j] ELSE d[j]]

\* d.pop(k, None), the dictionary afterwards
DictPop(d, k) == [j \in DOMAIN d \ {k} |-> d[j]]

\* every dictionary from a subset of Keys to Values
Dicts == UNION {[D -> Values] : D \in SUBSET Keys}

\* Python's None
None == "None"

-----------------------------------------------------------------------------
(* AgentState: core/state.py *)

\* AgentState() : empty mapping, no history, iteration 0
AgentState == [data |-> EmptyDict, history |-> <<>>, iteration |-> 0]

\* state.get(key)
get(s, key) == IF key \in DOMAIN s.data THEN s.data[key] ELSE None

\* state.set(key, value)
set(s, key, value) == [s EXCEPT !.data = DictSet(s.data, key, value)]

\* state.update(data)
update(s, d) == [s EXCEPT !.data = DictUpdate(s.data, d)]

\* state.remove(key)
remove(s, key) == [s EXCEPT !.data = DictPop(s.data, key)]

\* StateSnapshot(iteration, timestamp, data, message); the timestamp is not modelled
StateSnapshot(s, message) ==
    [iteration |-> s.iteration, data |-> s.data, message |-> message]

snapshot_advancing(s, message) ==
    [s EXCEPT !.history = Append(s.history, StateSnapshot(s, message)),
              !.iteration = s.iteration + 1]

\* state.snapshot(message)
snapshot(s, message) ==
    [s EXCEPT !.history = Append(s.history, StateSnapshot(s, message))]

advance_iteration_no_snapshot(s, message) ==
    [s EXCEPT !.iteration = s.iteration + 1]

\* state.advance_iteration(message)
advance_iteration(s, message) ==
    [snapshot(s, message) EXCEPT !.iteration = s.iteration + 1]

\* the guard of rollback_to_iteration and its return value
rollback_ok(s, i) == ~(i < 0 \/ i >= Len(s.history))

rollback_keeps_data(s, i) ==
    IF ~rollback_ok(s, i) THEN s
    ELSE [data      |-> s.data,
          iteration |-> i,
          history   |-> SubSeq(s.history, 1, i + 1)]

rollback_no_truncate(s, i) ==
    IF ~rollback_ok(s, i) THEN s
    ELSE [data      |-> s.history[i + 1].data,
          iteration |-> i,
          history   |-> s.history]

rollback_on_invalid(s, i) ==
    IF i < 0 THEN s
    ELSE IF i >= Len(s.history) THEN [s EXCEPT !.iteration = i]
    ELSE [data      |-> s.history[i + 1].data,
          iteration |-> i,
          history   |-> SubSeq(s.history, 1, i + 1)]

\* state.rollback_to_iteration(i), the state afterwards (history[i] in Python
\* is the (i+1)-th element of the sequence)
rollback_to_iteration(s, i) ==
    IF ~rollback_ok(s, i) THEN s
    ELSE [data      |-> s.history[i + 1].data,
          iteration |-> i,
          history   |-> SubSeq(s.history, 1, i + 1)]


\* the three groups of entries of a diff: "+key", "~key" and "-key"
diff_added(from_data, to_data) ==
    LET added == {k \in DOMAIN to_data : k \notin DOMAIN from_data}
    IN  [n \in {"+" \o k : k \in added} |->
            to_data[CHOOSE k \in added : "+" \o k = n]]

diff_changed(from_data, to_data) ==
    LET changed == {k \in DOMAIN to_data :
                        k \in DOMAIN from_data /\ from_data[k] # to_data[k]}
    IN  [n \in {"~" \o k : k \in changed} |->
            LET k == CHOOSE c \in changed : "~" \o c = n
            IN  [from |-> from_data[k], to |-> to_data[k]]]

diff_removed(from_data, to_data) ==
    LET removed == {k \in DOMAIN from_data : k \notin DOMAIN to_data}
    IN  [n \in {"-" \o k : k \in removed} |->
            from_data[CHOOSE k \in removed : "-" \o k = n]]

get_diff_no_removed(s, from_iteration, to_iteration) ==
    IF \/ from_iteration < 0 \/ from_iteration >= Len(s.history)
       \/ to_iteration < 0 \/ to_iteration >= Len(s.history)
    THEN EmptyDict
    ELSE LET from_data == s.history[from_iteration + 1].data
             to_data   == s.history[to_iteration + 1].data
         IN  DictUpdate(diff_added(from_data, to_data),
                        diff_changed(from_data, to_data))

\* state.get_diff(from_iteration, to_iteration)
get_diff(s, from_iteration, to_iteration) ==
    IF \/ from_iteration < 0 \/ from_iteration >= Len(s.history)
       \/ to_iteration < 0 \/ to_iteration >= Len(s.history)
    THEN EmptyDict
    ELSE LET from_data == s.history[from_iteration + 1].data
             to_data   == s.history[to_iteration + 1].data
         IN  DictUpdate(DictUpdate(diff_added(from_data, to_data),
                                   diff_changed(from_data, to_data)),
                        diff_removed(from_data, to_data))

-----------------------------------------------------------------------------
(* The AgentState object called directly: one action per method *)

\* a call of method name that returned ret and left the object as s; arg keeps
\* the indices a call of rollback_to_iteration or get_diff was given
Called(name, arg, ret, s) ==
    /\ state' = s
    /\ op' = [name |-> name, arg |-> arg, ret |-> ret]
    /\ UNCHANGED <<pipeline, agent_config, removed_types, registry>>

Get ==
    \E k \in Keys : Called("get", <<>>, get(state, k), state)

Set ==
    \E k \in Keys, v \in Values : Called("set", <<>>, None, set(state, k, v))

Update ==
    \E d \in Dicts : Called("update", <<>>, None, update(state, d))

Remove ==
    \E k \in Keys : Called("remove", <<>>, get(state, k), remove(state, k))

Snapshot ==
    /\ Len(state.history) < MaxHist
    /\ \E m \in Msgs :
          Called("snapshot", <<>>, StateSnapshot(state, m), snapshot(state, m))

AdvanceIteration ==
    /\ Len(state.history) < MaxHist
    /\ \E m \in Msgs :
          Called("advance_iteration", <<>>, None, advance_iteration(state, m))

RollbackToIteration ==
    \E i \in -1 .. MaxHist :
        Called("rollback_to_iteration", <<i>>, rollback_ok(state, i),
               rollback_to_iteration(state, i))

GetDiff ==
    \E i \in -1 .. MaxHist, j \in -1 .. MaxHist :
        Called("get_diff", <<i, j>>, get_diff(state, i, j), state)

-----------------------------------------------------------------------------
(* Specifications *)

Init ==
    /\ state = AgentState
    /\ op = [name |-> "init", arg |-> <<>>, ret |-> None]
    /\ pipeline = None
    /\ agent_config = None
    /\ removed_types = {}
    /\ registry = None

\* every method of AgentState, in any order
NextState ==
    \/ Get
    \/ Set
    \/ Update
    \/ Remove
    \/ Snapshot
    \/ AdvanceIteration
    \/ RollbackToIteration

SpecState == Init /\ [][NextState]_vars

\* a fresh AgentState moved forward by advance_iteration only, with reads and
\* writes of the mapping in between
NextAdvance ==
    \/ Get
    \/ Set
    \/ Update
    \/ Remove
    \/ AdvanceIteration

SpecAdvance == Init /\ [][NextAdvance]_vars

\* histories built by writes and advance_iteration, and diffs taken of them
NextDiff ==
    \/ Set
    \/ Update
    \/ Remove
    \/ AdvanceIteration
    \/ GetDiff

SpecDiff == Init /\ [][NextDiff]_vars

-----------------------------------------------------------------------------
(* AgentConfig and TerminalCondition: core/config.py *)

TerminalCondition(type, value) == [type |-> type, value |-> value]

\* AgentConfig(name=..., max_iterations=..., terminal_conditions=...) with
\* __post_init__ : the max-iterations condition is added when the list of
\* conditions is empty
AgentConfig(name, max_iterations, terminal_conditions) ==
    [name                |-> name,
     max_iterations      |-> max_iterations,
     terminal_conditions |->
        IF Len(terminal_conditions) = 0
        THEN <<TerminalCondition("max_iterations", max_iterations)>>
        ELSE terminal_conditions]

\* config.add_terminal_condition(condition)
add_terminal_condition(c, condition) ==
    [c EXCEPT !.terminal_conditions = Append(@, condition)]

\* config.remove_terminal_condition(condition_type): the configuration
\* afterwards
remove_terminal_condition(c, condition_type) ==
    LET keep(tc) == tc.type # condition_type
    IN  [c EXCEPT !.terminal_conditions = SelectSeq(@, keep)]

\* what remove_terminal_condition returns: whether a condition was removed
remove_terminal_condition_ret(c, condition_type) ==
    Len(remove_terminal_condition(c, condition_type).terminal_conditions)
        < Len(c.terminal_conditions)

\* the values of the enumeration TerminalConditionType; a member is held
\* as its value
TerminalConditionTypes ==
    {"max_iterations", "success_status", "error_status", "custom_condition",
     "timeout", "state_condition"}

\* TerminalConditionType(value): the member with that value
TerminalConditionType(value) ==
    CHOOSE type \in TerminalConditionTypes : type = value

\* TerminalCondition.to_dict(), without the description
condition_to_dict(tc) ==
    [j \in {"type", "value"} |-> IF j = "type" THEN tc.type ELSE tc.value]

\* TerminalCondition.from_dict(data)
condition_from_dict(data) ==
    TerminalCondition(TerminalConditionType(data["type"]), data["value"])

\* AgentConfig.to_dict(), of the fields the model holds
config_to_dict(c) ==
    [name                |-> c.name,
     max_iterations      |-> c.max_iterations,
     terminal_conditions |->
        [k \in 1 .. Len(c.terminal_conditions) |->
            condition_to_dict(c.terminal_conditions[k])]]

\* AgentConfig.from_dict(data): the conditions are read back and the
\* constructor is called, __post_init__ included
config_from_dict(data) ==
    AgentConfig(data.name, data.max_iterations,
                [k \in 1 .. Len(data.terminal_conditions) |->
                    condition_from_dict(data.terminal_conditions[k])])

-----------------------------------------------------------------------------
(* Agent and AgentResult: core/agent.py *)

AgentResult(status, message, data, terminal, error) ==
    [status |-> status, message |-> message, data |-> data,
     terminal |-> terminal, error |-> error]

\* Agent.__init__; kind tells a plain agent ("stub") from a CompositeAgent.
\* n_initialize, which the code does not keep, counts the calls of
\* initialize that returned.
Agent(config) ==
    [kind |-> "stub", config |-> config, status |-> "initializing",
     iteration_count |-> 0, n_initialize |-> 0]

\* state.to_dict() and snapshot.to_dict(), without the timestamps
to_dict(s) ==
    [data      |-> s.data,
     iteration |-> s.iteration,
     history   |-> [k \in 1 .. Len(s.history) |->
                      [iteration |-> s.history[k].iteration,
                       data      |-> s.history[k].data,
                       message   |-> s.history[k].message]]]

\* Agent.finalize(state)
base_finalize(a, s) ==
    [agent_name   |-> a.config.name,
     iterations   |-> a.iteration_count,
     final_status |-> a.status,
     final_state  |-> to_dict(s)]

\* agent.finalize(state): Agent.finalize, which CompositeAgent.finalize
\* extends with the counts of its steps
finalize(a, s) ==
    IF a.kind = "stub" THEN base_finalize(a, s)
    ELSE [agent_name      |-> a.config.name,
          iterations      |-> a.iteration_count,
          final_status    |-> a.status,
          final_state     |-> to_dict(s),
          workflow_mode   |-> a.workflow_mode,
          total_steps     |-> Len(a.steps),
          completed_steps |-> Len(a.completed_steps),
          failed_steps    |-> Len(a.failed_steps),
          step_names      |-> [k \in 1 .. Len(a.steps) |-> a.steps[k].agent.config.name],
          step_results    |-> a.step_results]

\* Agent.on_error(error, state), as the base class defines it: the agent
\* after the call and the AgentResult returned
on_error(a, error) ==
    [agent  |-> [a EXCEPT !.status = "failed"],
     result |-> AgentResult("failed", "Agent encountered an error", EmptyDict,
                            TRUE, error)]

-----------------------------------------------------------------------------
(* AgentPipeline: core/pipeline.py *)

\* AgentPipeline(agent) with its PipelineStatus.  state is the local variable
\* of run, pc the place run has reached ("new": not called, "loop": at the
\* top of the while loop, "finalize": the loop was left, "returned"), bundle
\* what run returned.  passes, n_init, n_exec, n_final, n_eval, n_raised and
\* last are history variables: the passes through the loop body, how often
\* agent.initialize, agent.execute_iteration, agent.finalize and
\* _evaluate_terminal_conditions were called, how often the agent's code
\* raised, the last AgentResult execute_iteration returned, and the way the
\* while loop was left ("pre_condition", "terminal_result", "post_condition",
\* "error_result", or "pipeline_error" for the outer exception handler).
AgentPipeline(a) ==
    [agent             |-> a,
     agent_status      |-> "initializing",
     errors            |-> <<>>,
     current_iteration |-> 0,
     total_iterations  |-> 0,
     state             |-> AgentState,
     pc                |-> "new",
     bundle            |-> None,
     passes            |-> 0,
     n_init            |-> 0,
     n_exec            |-> 0,
     n_final           |-> 0,
     n_eval            |-> 0,
     n_raised          |-> 0,
     last              |-> None,
     exit              |-> None,
     elapsed           |-> 0]

\* a condition's value that is a function of the state (and, for a custom
\* condition, of the agent and the status): "true", "false", the name of a
\* key the state must hold, or "raises" for one whose call raises
Callable(body) == [j \in {"__call__"} |-> body]

\* callable(value), of a value that is a Callable or a dictionary
callable(value) == "__call__" \in DOMAIN value

call_condition_raise_met(value, s) ==
    LET body == value["__call__"]
    IN  IF body = "raises" THEN TRUE
        ELSE IF body = "true" THEN TRUE
        ELSE IF body = "false" THEN FALSE
        ELSE body \in DOMAIN s.data

\* try: return condition_func(state), except Exception: (logged), and then
\* the return False at the end of _evaluate_single_condition
call_condition(value, s) ==
    LET body == value["__call__"]
    IN  IF body = "raises" THEN FALSE
        ELSE IF body = "true" THEN TRUE
        ELSE IF body = "false" THEN FALSE
        ELSE body \in DOMAIN s.data

\* status.duration while the run goes on: the time since started_at, in
\* whole units, as the clock gives it when the property is read
duration(p) == p.elapsed

evaluate_single_condition_gt(p, condition) ==
    IF condition.type = "max_iterations"
        THEN p.state.iteration > condition.value
    ELSE IF condition.type = "success_status"
        THEN p.agent_status = "completed"
    ELSE IF condition.type = "error_status"
        THEN p.agent_status = "failed"
    ELSE IF condition.type = "state_condition"
        THEN IF callable(condition.value)
             THEN call_condition(condition.value, p.state)
             ELSE \E key \in DOMAIN condition.value :
                     key \in DOMAIN p.state.data
                     /\ p.state.data[key] = condition.value[key]
    ELSE IF condition.type = "custom_condition"
        THEN callable(condition.value)
             /\ call_condition(condition.value, p.state)
    ELSE IF condition.type = "timeout"
        THEN duration(p) # 0 /\ duration(p) >= condition.value
    ELSE FALSE

\* AgentPipeline._evaluate_single_condition; a timeout condition is met
\* when the duration is truthy (not zero) and at least the condition's value
_evaluate_single_condition(p, condition) ==
    IF condition.type = "max_iterations"
        THEN p.state.iteration >= condition.value
    ELSE IF condition.type = "success_status"
        THEN p.agent_status = "completed"
    ELSE IF condition.type = "error_status"
        THEN p.agent_status = "failed"
    ELSE IF condition.type = "state_condition"
        THEN IF callable(condition.value)
             THEN call_condition(condition.value, p.state)
             ELSE \E key \in DOMAIN condition.value :
                     key \in DOMAIN p.state.data
                     /\ p.state.data[key] = condition.value[key]
    ELSE IF condition.type = "custom_condition"
        THEN callable(condition.value)
             /\ call_condition(condition.value, p.state)
    ELSE IF condition.type = "timeout"
        THEN duration(p) # 0 /\ duration(p) >= condition.value
    ELSE FALSE

evaluate_terminal_conditions_all(p) ==
    \A k \in 1 .. Len(p.agent.config.terminal_conditions) :
        _evaluate_single_condition(p, p.agent.config.terminal_conditions[k])

\* AgentPipeline._evaluate_terminal_conditions
_evaluate_terminal_conditions(p) ==
    \E k \in 1 .. Len(p.agent.config.terminal_conditions) :
        _evaluate_single_condition(p, p.agent.config.terminal_conditions[k])

\* what run returns on its normal path
result_bundle(p, final_results) ==
    [agent_results   |-> final_results,
     pipeline_status |-> [total_iterations |-> p.total_iterations,
                          final_status     |-> p.agent_status,
                          errors           |-> p.errors],
     final_state     |-> to_dict(p.state)]

pipeline_error_keeps_status(p, e) ==
    LET q == [p EXCEPT !.errors = Append(p.errors, e),
                       !.n_raised = @ + 1]
    IN  [q EXCEPT !.pc = "returned",
                  !.exit = "pipeline_error",
                  !.bundle = [agent_results   |-> None,
                              pipeline_status |->
                                 [total_iterations |-> q.total_iterations,
                                  final_status     |-> q.agent_status,
                                  errors           |-> q.errors],
                              final_state     |-> to_dict(q.state),
                              pipeline_error  |-> e]]

\* run's handler of an exception that left the outer try block
pipeline_error(p, e) ==
    LET q == [p EXCEPT !.agent_status = "failed",
                       !.errors = Append(p.errors, e),
                       !.n_raised = @ + 1]
    IN  [q EXCEPT !.pc = "returned",
                  !.exit = "pipeline_error",
                  !.bundle = [agent_results   |-> None,
                              pipeline_status |->
                                 [total_iterations |-> q.total_iterations,
                                  final_status     |-> q.agent_status,
                                  errors           |-> q.errors],
                              final_state     |-> to_dict(q.state),
                              pipeline_error  |-> e]]

start_state_not_fresh(p, initialize_raises) ==
    LET q == [p EXCEPT !.state = [AgentState EXCEPT !.iteration = 1],
                       !.agent_status = "initializing",
                       !.n_init = @ + 1]
    IN  IF initialize_raises
        THEN pipeline_error(q, "initialize failed")
        ELSE [q EXCEPT !.agent_status = "running", !.pc = "loop"]

\* run up to the while loop: a fresh AgentState, the pre_pipeline hooks and
\* agent.initialize(context), which raises or returns
start(p, initialize_raises) ==
    LET q == [p EXCEPT !.state = AgentState, !.agent_status = "initializing",
                       !.n_init = @ + 1]
    IN  IF initialize_raises
        THEN pipeline_error(q, "initialize failed")
        ELSE [q EXCEPT !.agent_status = "running", !.pc = "loop"]

\* the handler of an exception raised inside the loop's try block: on_error
\* raises, or returns the base class's terminal Result, or (overridden)
\* returns a Result that is not terminal
handle_exception(p, e, how) ==
    IF how = "raise" THEN pipeline_error(p, "on_error failed")
    ELSE LET handled == IF how = "default" THEN on_error(p.agent, e)
                        ELSE [agent  |-> p.agent,
                              result |-> AgentResult("running", "recovered",
                                                     EmptyDict, FALSE, None)]
             error_result == handled.result
             q == [p EXCEPT !.agent = handled.agent, !.n_raised = @ + 1]
         IN  IF error_result.terminal
             THEN [q EXCEPT !.agent_status = error_result.status,
                            !.errors = Append(q.errors, e),
                            !.pc = "finalize",
                            !.exit = "error_result"]
             ELSE q

\* What the code outside the framework does during one run is an input of
\* the model.  Of a run: [initialize_raises, script, finalize_raises], script
\* a sequence with one entry per pass through the loop body.  Of a pass:
\* [pre_hook_raises, exec, post_hook_raises, on_error], where exec tells what
\* execute_iteration does: for a plain agent [raises, result], for a
\* CompositeAgent the run of the step it starts.

\* a pass in which nothing raises and execute_iteration does exec
Pass(exec) ==
    [pre_hook_raises |-> FALSE, exec |-> exec, post_hook_raises |-> FALSE,
     on_error |-> "default", takes |-> 0]

Returns(result) == [raises |-> FALSE, result |-> result]

\* execute_iteration raises; there is no result, and result is not read
Raises ==
    [raises |-> TRUE, result |-> AgentResult("failed", "", EmptyDict, FALSE, None)]

\* a run in which initialize and finalize return
Run(script) ==
    [initialize_raises |-> FALSE, script |-> script, finalize_raises |-> FALSE]

\* the pass of a run whose script is used up: a plain agent keeps working
DefaultPass(a) ==
    IF a.kind = "stub"
    THEN Pass(Returns(AgentResult("running", "m", EmptyDict, FALSE, None)))
    ELSE Pass(Run(<<>>))

RECURSIVE run(_, _)
RECURSIVE loop(_, _)
RECURSIVE execute_iteration(_, _, _)
RECURSIVE initialize(_)

\* agent.initialize(context) when it returns: a CompositeAgent initializes
\* its steps' agents and sets its status
initialize(a) ==
    IF a.kind = "stub" THEN [a EXCEPT !.n_initialize = @ + 1]
    ELSE [a EXCEPT !.status = "running",
                   !.n_initialize = @ + 1,
                   !.steps = [k \in 1 .. Len(a.steps) |->
                                [a.steps[k] EXCEPT !.agent = initialize(@)]]]

\* run up to the while loop, for any agent
start_run(p, initialize_raises) ==
    LET q == start(p, initialize_raises)
    IN  IF q.pc = "loop" THEN [q EXCEPT !.agent = initialize(q.agent)] ELSE q

process_result_advance_first(p, result, b) ==
    LET advanced == advance_iteration(p.state, result.message)
        q == [p EXCEPT !.agent.iteration_count = @ + 1,
                       !.errors = IF result.error # None
                                  THEN Append(@, result.error) ELSE @,
                       !.state = IF DOMAIN result.data # {}
                                 THEN update(advanced, result.data) ELSE advanced,
                       !.last = result]
        r == [q EXCEPT !.n_eval = @ + 1]
    IN  IF b.post_hook_raises
        THEN handle_exception(q, "post_iteration_hook failed", b.on_error)
        ELSE IF result.terminal
        THEN [q EXCEPT !.agent_status = result.status, !.pc = "finalize",
                       !.exit = "terminal_result"]
        ELSE IF _evaluate_terminal_conditions(r)
        THEN [r EXCEPT !.pc = "finalize", !.exit = "post_condition"]
        ELSE r

process_result_terminal_last(p, result, b) ==
    LET updated == IF DOMAIN result.data # {}
                   THEN update(p.state, result.data) ELSE p.state
        q == [p EXCEPT !.agent.iteration_count = @ + 1,
                       !.errors = IF result.error # None
                                  THEN Append(@, result.error) ELSE @,
                       !.state = advance_iteration(updated, result.message),
                       !.last = result]
        r == [q EXCEPT !.n_eval = @ + 1]
    IN  IF b.post_hook_raises
        THEN handle_exception(q, "post_iteration_hook failed", b.on_error)
        ELSE IF _evaluate_terminal_conditions(r)
        THEN [r EXCEPT !.pc = "finalize", !.exit = "post_condition"]
        ELSE IF result.terminal
        THEN [r EXCEPT !.agent_status = result.status, !.pc = "finalize",
                       !.exit = "terminal_result"]
        ELSE r

\* the loop body after execute_iteration returned result: the result's error
\* is recorded, its data merged, the iteration advanced, the post-iteration
\* hooks run; the loop is left on a terminal result, or on a terminal
\* condition
process_result(p, result, b) ==
    LET updated == IF DOMAIN result.data # {}
                   THEN update(p.state, result.data) ELSE p.state
        q == [p EXCEPT !.agent.iteration_count = @ + 1,
                       !.errors = IF result.error # None
                                  THEN Append(@, result.error) ELSE @,
                       !.state = advance_iteration(updated, result.message),
                       !.last = result]
        r == [q EXCEPT !.n_eval = @ + 1]
    IN  IF b.post_hook_raises
        THEN handle_exception(q, "post_iteration_hook failed", b.on_error)
        ELSE IF result.terminal
        THEN [q EXCEPT !.agent_status = result.status, !.pc = "finalize",
                       !.exit = "terminal_result"]
        ELSE IF _evaluate_terminal_conditions(r)
        THEN [r EXCEPT !.pc = "finalize", !.exit = "post_condition"]
        ELSE r

\* one pass through the body of the while loop; the call of
\* execute_iteration takes b.takes units of time
loop_pass(p, b) ==
    LET p1 == [p EXCEPT !.current_iteration = p.state.iteration,
                        !.passes = @ + 1,
                        !.n_eval = @ + 1]
    IN  IF _evaluate_terminal_conditions(p1)
        THEN [p1 EXCEPT !.pc = "finalize", !.exit = "pre_condition"]
        ELSE IF b.pre_hook_raises
        THEN pipeline_error(p1, "pre_iteration_hook failed")
        ELSE LET x  == execute_iteration(p1.agent, p1.state, b.exec)
                 p2 == [p1 EXCEPT !.n_exec = @ + 1,
                                  !.agent = x.agent,
                                  !.state = x.state,
                                  !.elapsed = @ + b.takes]
             IN  IF x.raises
                 THEN handle_exception(p2, "execute_iteration failed", b.on_error)
                 ELSE process_result(p2, x.result, b)

\* the while loop, its passes behaving as script tells
loop(p, script) ==
    IF p.pc # "loop" THEN p
    ELSE LET b    == IF Len(script) = 0 THEN DefaultPass(p.agent) ELSE Head(script)
             rest == IF Len(script) = 0 THEN script ELSE Tail(script)
         IN  loop(loop_pass(p, b), rest)

finish_keeps_status(p, finalize_raises) ==
    IF finalize_raises
    THEN pipeline_error([p EXCEPT !.n_final = @ + 1], "finalize failed")
    ELSE LET final_results == finalize(p.agent, p.state)
             q == [p EXCEPT !.total_iterations = p.state.iteration,
                            !.n_final = @ + 1]
         IN  [q EXCEPT !.pc = "returned",
                       !.bundle = result_bundle(q, final_results)]

finish_always_completed(p, finalize_raises) ==
    IF finalize_raises
    THEN pipeline_error([p EXCEPT !.n_final = @ + 1], "finalize failed")
    ELSE LET final_results == finalize(p.agent, p.state)
             q == [p EXCEPT !.total_iterations = p.state.iteration,
                            !.n_final = @ + 1,
                            !.agent_status = "completed"]
         IN  [q EXCEPT !.pc = "returned",
                       !.bundle = result_bundle(q, final_results)]

\* run after the loop: agent.finalize(state), which raises or returns, the
\* final status, the post_pipeline hooks and the result bundle
finish(p, finalize_raises) ==
    IF finalize_raises
    THEN pipeline_error([p EXCEPT !.n_final = @ + 1], "finalize failed")
    ELSE LET final_results == finalize(p.agent, p.state)
             q == [p EXCEPT !.total_iterations = p.state.iteration,
                            !.n_final = @ + 1,
                            !.agent_status = IF @ = "running" THEN "completed"
                                             ELSE @]
         IN  [q EXCEPT !.pc = "returned",
                       !.bundle = result_bundle(q, final_results)]

\* AgentPipeline(a).run(context) as one call: the pipeline when run returns
run(a, r) ==
    LET p0 == start_run(AgentPipeline(a), r.initialize_raises)
        p1 == loop(p0, r.script)
    IN  IF p0.pc = "returned" THEN p0
        ELSE IF p1.pc = "returned" THEN p1
        ELSE finish(p1, r.finalize_raises)

-----------------------------------------------------------------------------
(* CompositeAgent: composition/composite.py *)

\* AgentStep(agent, condition, max_iterations).  A condition is None, or a
\* predicate of the AgentState: "true", "false", or the name of a key the
\* state must hold.  max_iterations is 0 for None: the code tests its truth,
\* and None and 0 are both false.
AgentStep(a, condition, max_iterations) ==
    [agent |-> a, condition |-> condition, max_iterations |-> max_iterations,
     step_id |-> a.config.name]

\* CompositeAgent(config) after set_workflow_mode(mode) and add_step for
\* each step
CompositeAgent(config, mode, steps) ==
    [kind |-> "composite", config |-> config, status |-> "initializing",
     iteration_count |-> 0, n_initialize |-> 0,
     workflow_mode |-> mode, steps |-> steps,
     step_results |-> EmptyDict, current_step_index |-> 0,
     completed_steps |-> <<>>, failed_steps |-> <<>>]

\* step.condition(state)
condition_holds(condition, s) ==
    IF condition = "true" THEN TRUE
    ELSE IF condition = "false" THEN FALSE
    ELSE condition \in DOMAIN s.data

\* x in list
Contains(list, x) == \E k \in 1 .. Len(list) : list[k] = x

\* a dictionary with one key
Dict1(k, v) == [j \in {k} |-> v]

\* a dictionary with two keys
Dict2(k1, v1, k2, v2) == [j \in {k1, k2} |-> IF j = k1 THEN v1 ELSE v2]

\* what execute_iteration hands back when it returns: the result, the agent
\* and the state as the call left them
Returned(a, s, result) ==
    [raises |-> FALSE, result |-> result, agent |-> a, state |-> s]

\* the lines the three modes share: a nested AgentPipeline is made for the
\* step's agent, the step's max_iterations (when set) is written into the
\* agent's config, the pipeline is run and its result bundle stored.  Gives
\* the composite afterwards and the bundle.
run_step(a, k, s, r) ==
    LET step == a.steps[k]
        sub  == IF step.max_iterations # 0
                THEN [step.agent EXCEPT !.config.max_iterations = step.max_iterations]
                ELSE step.agent
        nested == run(sub, r)
    IN  [agent   |-> [a EXCEPT !.steps[k].agent = nested.agent,
                               !.step_results =
                                    DictSet(@, sub.config.name, nested.bundle)],
         results |-> nested.bundle,
         name    |-> sub.config.name]

step_succeeded_always(results) == TRUE

step_succeeded_by_agent(results) ==
    results.agent_results.final_status = "completed"

\* step_successful: the nested run's final status is "completed"
step_succeeded(results) ==
    results.pipeline_status.final_status = "completed"

merge_step_result_whole(s, name, results) ==
    update(s, Dict1(name \o "_result", results))

\* the final data of a step's nested run is merged into the composite's
\* state under "<name>_result"; final_state always has the key "data"
merge_step_result(s, name, results) ==
    update(s, Dict1(name \o "_result", results.final_state.data))

step_completed_same_index(a, name) ==
    [a EXCEPT !.completed_steps = Append(@, name)]

\* _execute_sequential after a step that succeeded: the step is recorded as
\* completed and the cursor moves to the next step
step_completed(a, name) ==
    [a EXCEPT !.completed_steps = Append(@, name),
              !.current_step_index = @ + 1]

\* CompositeAgent._execute_sequential; ran is run_step of the current step
_execute_sequential(a, s, ran) ==
    IF a.current_step_index >= Len(a.steps)
    THEN Returned([a EXCEPT !.status = "completed"], s,
                  AgentResult("completed", "All workflow steps completed successfully",
                              Dict1("completed_steps", a.completed_steps), TRUE, None))
    ELSE LET results == ran.results
             step_successful == step_succeeded(results)
         IN  IF step_successful
             THEN LET a2 == step_completed(ran.agent, ran.name)
                      s2 == merge_step_result(s, ran.name, results)
                  IN  IF a2.current_step_index >= Len(a2.steps)
                      THEN Returned([a2 EXCEPT !.status = "completed"], s2,
                               AgentResult("completed", "All workflow steps completed",
                                   Dict1("step_results", a2.step_results), TRUE, None))
                      ELSE Returned(a2, s2,
                               AgentResult("running",
                                   "Step " \o ran.name \o " completed successfully",
                                   Dict2("current_step", a2.current_step_index,
                                         "step_result", results),
                                   FALSE, None))
             ELSE Returned([ran.agent EXCEPT !.failed_steps = Append(@, ran.name)], s,
                      AgentResult("failed", "Step " \o ran.name \o " failed",
                          Dict2("failed_step", ran.name, "step_result", results),
                          TRUE, "Step " \o ran.name \o " failed"))

\* CompositeAgent._execute_single_step; ran is run_step of the step
_execute_single_step(a, s, ran) ==
    LET results == ran.results
        step_successful == step_succeeded(results)
    IN  IF step_successful
        THEN Returned([ran.agent EXCEPT !.completed_steps = Append(@, ran.name)],
                      merge_step_result(s, ran.name, results),
                      AgentResult("running", "Step " \o ran.name \o " completed",
                                  Dict1("step_result", results), FALSE, None))
        ELSE Returned([ran.agent EXCEPT !.failed_steps = Append(@, ran.name)], s,
                      AgentResult("failed", "Step " \o ran.name \o " failed",
                                  Dict2("failed_step", ran.name, "step_result", results),
                                  TRUE, None))

\* the steps _execute_conditional may select: not completed, and with no
\* condition or a condition that holds of the state
selectable(a, s) ==
    {k \in 1 .. Len(a.steps) :
        /\ ~Contains(a.completed_steps, a.steps[k].step_id)
        /\ (a.steps[k].condition = None \/ condition_holds(a.steps[k].condition, s))}

select_last(a, s) ==
    {k \in selectable(a, s) : \A j \in selectable(a, s) : k >= j}

\* the step _execute_conditional selects: the first selectable one, as a set
\* (empty when there is none)
next_step(a, s) ==
    {k \in selectable(a, s) : \A j \in selectable(a, s) : k <= j}

\* CompositeAgent._execute_conditional; ran is run_step of the selected step
_execute_conditional(a, s, ran) ==
    IF next_step(a, s) = {}
    THEN Returned([a EXCEPT !.status = "completed"], s,
                  AgentResult("completed", "Conditional workflow completed",
                              Dict1("completed_steps", a.completed_steps), TRUE, None))
    ELSE _execute_single_step(a, s, ran)

execute_loop_same_cursor(a, s, ran) ==
    IF Len(a.steps) = 0
    THEN Returned(a, s, AgentResult("completed", "No steps to execute in loop",
                                    EmptyDict, TRUE, None))
    ELSE _execute_single_step(a, s, ran)

\* CompositeAgent._execute_loop; ran is run_step of the step at the cursor
_execute_loop(a, s, ran) ==
    IF Len(a.steps) = 0
    THEN Returned(a, s, AgentResult("completed", "No steps to execute in loop",
                                    EmptyDict, TRUE, None))
    ELSE LET x == _execute_single_step(a, s, ran)
         IN  [x EXCEPT !.agent.current_step_index =
                            (a.current_step_index + 1) % Len(a.steps)]

\* the place in steps of the step this iteration runs, 0 when it runs none
step_to_run(a, s) ==
    IF a.workflow_mode = "sequential"
        THEN IF a.current_step_index >= Len(a.steps) THEN 0
             ELSE a.current_step_index + 1
    ELSE IF a.workflow_mode = "conditional"
        THEN IF next_step(a, s) = {} THEN 0
             ELSE CHOOSE k \in next_step(a, s) : TRUE
    ELSE IF Len(a.steps) = 0 THEN 0
         ELSE (a.current_step_index % Len(a.steps)) + 1

\* agent.execute_iteration(state): of a plain agent what exec tells, of a
\* CompositeAgent the method of its workflow mode, in which the run of the
\* step's agent behaves as exec tells
execute_iteration(a, s, exec) ==
    IF a.kind = "stub"
        THEN [raises |-> exec.raises, result |-> exec.result, agent |-> a, state |-> s]
    ELSE LET ran == run_step(a, step_to_run(a, s), s, exec)
         IN  IF a.workflow_mode = "sequential" THEN _execute_sequential(a, s, ran)
             ELSE IF a.workflow_mode = "conditional" THEN _execute_conditional(a, s, ran)
             ELSE IF a.workflow_mode = "loop" THEN _execute_loop(a, s, ran)
             ELSE [raises |-> TRUE, result |-> Raises.result, agent |-> a, state |-> s]

-----------------------------------------------------------------------------
(* A pipeline run: one action per call the pipeline makes into the agent's
   code and back *)

\* the AgentResults a plain agent returns
StubResults ==
    {AgentResult(st, "m", d, term, err) :
        st \in {"running", "completed", "failed"},
        d \in {EmptyDict, Dict1("count", 2)},
        term \in BOOLEAN,
        err \in {None, "error"}}

OnError == {"default", "recover", "raise"}

\* what a plain agent does in one pass: its pre_iteration_hook raises; or
\* execute_iteration raises; or it returns a result, after which
\* post_iteration_hook returns or raises
StubPasses ==
    {[pre_hook_raises |-> TRUE, exec |-> Raises, post_hook_raises |-> FALSE,
      on_error |-> "default", takes |-> 0]}
    \cup {[pre_hook_raises |-> FALSE, exec |-> Raises, post_hook_raises |-> FALSE,
           on_error |-> h, takes |-> 0] : h \in OnError}
    \cup {Pass(Returns(r)) : r \in StubResults}
    \cup {[pre_hook_raises |-> FALSE, exec |-> Returns(r), post_hook_raises |-> TRUE,
           on_error |-> h, takes |-> 0] : r \in StubResults, h \in OnError}

\* the runs of a step's agent
StepRuns ==
    {Run(<<>>),
     Run(<<Pass(Returns(AgentResult("completed", "m", Dict1("count", 1), TRUE, None)))>>),
     Run(<<Pass(Returns(AgentResult("running", "m", Dict1("count", 1), FALSE, None))),
           Pass(Returns(AgentResult("completed", "m", Dict1("count", 2), TRUE, None)))>>),
     Run(<<Pass(Returns(AgentResult("failed", "m", Dict1("count", 1), TRUE, "error")))>>),
     Run(<<Pass(Returns(AgentResult("failed", "m", EmptyDict, TRUE, None)))>>),
     Run(<<Pass(Raises)>>),
     [initialize_raises |-> TRUE, script |-> <<>>, finalize_raises |-> FALSE],
     [initialize_raises |-> FALSE, script |-> <<>>, finalize_raises |-> TRUE]}

\* what the code outside the framework may do in one pass of a's pipeline.
\* CompositeAgent overrides neither hook nor on_error.
RECURSIVE AgentRuns(_)

\* the runs of an agent that is a step: of a plain agent StepRuns; of a
\* CompositeAgent the runs in which initialize or finalize raises and those
\* whose first iteration runs its first step's agent in one of that
\* agent's runs
AgentRuns(a) ==
    IF a.kind = "stub" THEN StepRuns
    ELSE IF Len(a.steps) = 0 THEN {Run(<<>>)}
    ELSE {Run(<<Pass(r)>>) : r \in AgentRuns(a.steps[1].agent)}
         \cup {[initialize_raises |-> TRUE, script |-> <<>>, finalize_raises |-> FALSE],
               [initialize_raises |-> FALSE, script |-> <<>>, finalize_raises |-> TRUE]}

PassBehaviours(a) ==
    IF a.kind = "stub" THEN StubPasses
    ELSE IF Len(a.steps) = 0 THEN {Pass(r) : r \in StepRuns}
    ELSE {Pass(r) : r \in AgentRuns(a.steps[1].agent)}

Start ==
    /\ pipeline.pc = "new"
    /\ \E initialize_raises \in BOOLEAN :
          pipeline' = start_run(pipeline, initialize_raises)
    /\ UNCHANGED <<state, op, agent_config, removed_types, registry>>

Iterate ==
    /\ pipeline.pc = "loop"
    /\ pipeline.passes < MaxPasses
    /\ \E b \in PassBehaviours(pipeline.agent) : pipeline' = loop_pass(pipeline, b)
    /\ UNCHANGED <<state, op, agent_config, removed_types, registry>>

Finish ==
    /\ pipeline.pc = "finalize"
    /\ \E finalize_raises \in BOOLEAN :
          pipeline' = finish(pipeline, finalize_raises)
    /\ UNCHANGED <<state, op, agent_config, removed_types, registry>>

NextRun ==
    \/ Start
    \/ Iterate
    \/ Finish

\* the lists of terminal conditions a configuration is constructed with
ConditionList(i) ==
    CASE i = 1 -> <<>>
      [] i = 2 -> <<TerminalCondition("success_status", None)>>
      [] i = 3 -> <<TerminalCondition("error_status", None),
                    TerminalCondition("max_iterations", 2)>>
      [] i = 4 -> <<TerminalCondition("state_condition", Dict1("count", 2))>>
      [] i = 5 -> <<TerminalCondition("state_condition", Callable("raises")),
                    TerminalCondition("custom_condition", Callable("raises")),
                    TerminalCondition("max_iterations", 2)>>
      [] i = 6 -> <<TerminalCondition("custom_condition", Callable("count")),
                    TerminalCondition("state_condition", Callable("false"))>>

ConditionLists == {1, 2, 3, 4, 5, 6}

\* a pipeline for a plain agent, of any configuration
InitPipeline ==
    /\ state = AgentState
    /\ op = [name |-> "init", arg |-> <<>>, ret |-> None]
    /\ agent_config = None
    /\ removed_types = {}
    /\ registry = None
    /\ \E n \in 0 .. MaxIter, i \in ConditionLists :
          pipeline = AgentPipeline(Agent(AgentConfig("agent", n, ConditionList(i))))

SpecPipeline == InitPipeline /\ [][NextRun]_vars

\* min(a, b)
Min(a, b) == IF a < b THEN a ELSE b

\* the pipeline p with its counts of passes and calls, which the code does
\* not keep, held at MaxPasses once they reach it
Saturated(p) ==
    [p EXCEPT !.passes = Min(@, MaxPasses), !.n_exec = Min(@, MaxPasses),
              !.n_eval = Min(@, MaxPasses), !.n_raised = Min(@, MaxPasses)]

\* the passes of a plain agent in which execute_iteration raises, with any
\* on_error, or returns a Result without data
LivePasses ==
    {b \in StubPasses :
        /\ ~b.pre_hook_raises
        /\ ~b.post_hook_raises
        /\ b.exec.raises \/ DOMAIN b.exec.result.data = {}}

\* a pass of the while loop, in a run of any length; op tells one pass
\* from the next
IterateLive ==
    /\ pipeline.pc = "loop"
    /\ \E b \in LivePasses : pipeline' = Saturated(loop_pass(pipeline, b))
    /\ op' = [name |-> "loop_pass", arg |-> <<>>,
              ret  |-> IF op.name = "loop_pass" THEN 1 - op.ret ELSE 0]
    /\ UNCHANGED <<state, agent_config, removed_types, registry>>

NextLive ==
    \/ Start
    \/ IterateLive
    \/ Finish

\* a pipeline for a plain agent whose configuration holds the
\* max-iterations condition, alone or after another condition
InitLive ==
    /\ state = AgentState
    /\ op = [name |-> "init", arg |-> <<>>, ret |-> None]
    /\ agent_config = None
    /\ removed_types = {}
    /\ registry = None
    /\ \E n \in 1 .. MaxIter, i \in {1, 3} :
          pipeline = AgentPipeline(Agent(AgentConfig("agent", n, ConditionList(i))))

\* every call the pipeline makes returns or raises in finite time
SpecLive == InitLive /\ [][NextLive]_vars /\ WF_vars(NextLive)

\* the largest value a timeout condition is given
MaxTimeout == 2

\* the longest a call of initialize or of execute_iteration takes
MaxTakes == 1

\* the passes of a plain agent whose call of execute_iteration takes time
TimedPasses ==
    {[b EXCEPT !.takes = d] : b \in StubPasses, d \in 0 .. MaxTakes}

\* run up to the while loop, with the time the clock shows at the first
\* reading after started_at was set
StartTimed ==
    /\ pipeline.pc = "new"
    /\ \E initialize_raises \in BOOLEAN, d \in 0 .. MaxTakes :
          pipeline' = [start_run(pipeline, initialize_raises) EXCEPT !.elapsed = d]
    /\ UNCHANGED <<state, op, agent_config, removed_types, registry>>

IterateTimed ==
    /\ pipeline.pc = "loop"
    /\ pipeline.passes < MaxPasses
    /\ \E b \in TimedPasses : pipeline' = loop_pass(pipeline, b)
    /\ UNCHANGED <<state, op, agent_config, removed_types, registry>>

NextTimed ==
    \/ StartTimed
    \/ IterateTimed
    \/ Finish

\* a pipeline for a plain agent whose configuration holds a timeout
\* condition, alone or before the max-iterations condition
InitTimeout ==
    /\ state = AgentState
    /\ op = [name |-> "init", arg |-> <<>>, ret |-> None]
    /\ agent_config = None
    /\ removed_types = {}
    /\ registry = None
    /\ \E n \in 1 .. MaxIter, t \in 0 .. MaxTimeout, bounded \in BOOLEAN :
          pipeline = AgentPipeline(Agent(AgentConfig("agent", n,
                        IF bounded
                        THEN <<TerminalCondition("timeout", t),
                               TerminalCondition("max_iterations", n)>>
                        ELSE <<TerminalCondition("timeout", t)>>)))

SpecTimeout == InitTimeout /\ [][NextTimed]_vars

StepAgent(name) == Agent(AgentConfig(name, StepIter, <<>>))

\* the max_iterations a step is given for its agent
StepOverride == 1

\* a sequential CompositeAgent that is itself a step
NestedComposite(name, steps) ==
    CompositeAgent(AgentConfig(name, StepIter, <<>>), "sequential", steps)

\* lists whose steps are sequential composites: of one plain step each, and
\* of a composite of one plain step
NestedStepLists ==
    {<<AgentStep(NestedComposite("N", <<AgentStep(StepAgent("X"), None, 0)>>), None, 0),
       AgentStep(NestedComposite("P", <<AgentStep(StepAgent("Y"), None, 0)>>), None, 0)>>,
     <<AgentStep(NestedComposite("N",
          <<AgentStep(NestedComposite("M", <<AgentStep(StepAgent("X"), None, 0)>>),
                      None, 0)>>), None, 0)>>}

\* the lists of steps a CompositeAgent is given
StepLists ==
    {<<>>, <<AgentStep(StepAgent("A"), None, 0)>>,
     <<AgentStep(StepAgent("A"), None, 0), AgentStep(StepAgent("B"), None, 0),
       AgentStep(StepAgent("C"), None, 0)>>}
    \cup {<<AgentStep(StepAgent("A"), ca, 0), AgentStep(StepAgent("B"), cb, 0)>> :
            ca \in {None, "true", "false"},
            cb \in {None, "true", "A_result"}}
    \cup NestedStepLists
    \cup {<<AgentStep(StepAgent("A"), None, StepOverride)>>}

\* a pipeline for a CompositeAgent, of any mode
InitComposite ==
    /\ state = AgentState
    /\ op = [name |-> "init", arg |-> <<>>, ret |-> None]
    /\ agent_config = None
    /\ removed_types = {}
    /\ registry = None
    /\ \E n \in 1 .. MaxIter, mode \in {"sequential", "conditional", "loop"},
          steps \in StepLists :
          pipeline = AgentPipeline(
                        CompositeAgent(AgentConfig("workflow", n, <<>>), mode, steps))

SpecComposite == InitComposite /\ [][NextRun]_vars

-----------------------------------------------------------------------------
(* An AgentConfig: constructed, then changed through its methods *)

\* the conditions a caller adds
Condition(i) ==
    CASE i = 1 -> TerminalCondition("max_iterations", 2)
      [] i = 2 -> TerminalCondition("success_status", None)
      [] i = 3 -> TerminalCondition("state_condition", Dict1("count", 2))

Conditions == {1, 2, 3}

ConditionTypes == {"max_iterations", "success_status", "state_condition"}

AddTerminalCondition ==
    /\ Len(agent_config.terminal_conditions) < MaxConds
    /\ \E i \in Conditions :
          /\ agent_config' = add_terminal_condition(agent_config, Condition(i))
          /\ op' = [name |-> "add_terminal_condition", arg |-> <<i>>, ret |-> None]
    /\ UNCHANGED <<state, pipeline, removed_types, registry>>

RemoveTerminalCondition ==
    /\ \E condition_type \in ConditionTypes :
          /\ agent_config' = remove_terminal_condition(agent_config, condition_type)
          /\ removed_types' = removed_types \cup {condition_type}
          /\ op' = [name |-> "remove_terminal_condition",
                    arg  |-> <<condition_type>>,
                    ret  |-> remove_terminal_condition_ret(agent_config, condition_type)]
    /\ UNCHANGED <<state, pipeline, registry>>

NextConfig ==
    \/ AddTerminalCondition
    \/ RemoveTerminalCondition

\* AgentConfig.from_dict(agent_config.to_dict())
RoundTrip ==
    /\ op' = [name |-> "from_dict",
              arg  |-> <<config_to_dict(agent_config)>>,
              ret  |-> config_from_dict(config_to_dict(agent_config))]
    /\ UNCHANGED <<state, pipeline, agent_config, removed_types, registry>>

NextSerialize ==
    \/ AddTerminalCondition
    \/ RemoveTerminalCondition
    \/ RoundTrip

\* a configuration constructed with any max_iterations and any list of
\* terminal conditions
InitConfig ==
    /\ state = AgentState
    /\ op = [name |-> "init", arg |-> <<>>, ret |-> None]
    /\ pipeline = None
    /\ removed_types = {}
    /\ registry = None
    /\ \E n \in 0 .. MaxIter, i \in ConditionLists :
          agent_config = AgentConfig("agent", n, ConditionList(i))

SpecConfig == InitConfig /\ [][NextConfig]_vars

SpecSerialize == InitConfig /\ [][NextSerialize]_vars

-----------------------------------------------------------------------------
(* AgentRegistry: core/registry.py *)

\* the classes a caller registers or a factory returns an instance of:
\* StubAgent, its subclass SubStubAgent, OtherAgent and BrokenAgent (whose
\* __init__ raises) inherit from Agent, object does not
Classes == {"StubAgent", "SubStubAgent", "OtherAgent", "BrokenAgent", "object"}

\* issubclass(c, d)
issubclass(c, d) ==
    \/ c = d
    \/ d = "object"
    \/ d = "Agent" /\ c # "object"
    \/ c = "SubStubAgent" /\ d = "StubAgent"

\* isinstance(agent, c)
isinstance(agent, c) == issubclass(agent.class, c)

\* an exception: its class and str(e)
Exception(class, message) == [class |-> class, message |-> message]

NoError == Exception(None, None)

NoAgent == [class |-> None]

\* the text of the error create_agent builds when the factory's agent is
\* not an instance of the registered class
WrongTypeMessage(agent_type, expected_class, got) ==
    "Factory for '" \o agent_type \o "' returned wrong type: expected <class '"
        \o expected_class \o "'>, got <class '" \o got \o "'>"

\* agent_class(config): an instance, or the exception __init__ raises
construct(agent_class) ==
    IF agent_class = "BrokenAgent"
    THEN [raises |-> TRUE, agent |-> NoAgent, message |-> "boom"]
    ELSE [raises |-> FALSE, agent |-> [class |-> agent_class], message |-> None]

\* a factory given to register_agent: None (kind "default"), a function
\* that returns an instance of the class value, or one that raises an
\* exception whose text is value
Factory(kind, value) == [kind |-> kind, value |-> value]

\* factory(config), of a factory as register_agent stored it
call_factory(factory) ==
    IF factory.kind = "raises"
    THEN [raises |-> TRUE, agent |-> NoAgent, message |-> factory.value]
    ELSE construct(factory.value)

\* AgentRegistry()
AgentRegistry == [_agents |-> EmptyDict, _factories |-> EmptyDict]

\* registry.register_agent(agent_type, agent_class, factory=factory): the
\* registry afterwards and the exception raised, if any.  The default
\* factory constructs agent_class.
register_agent(reg, agent_type, agent_class, factory) ==
    IF ~issubclass(agent_class, "Agent")
    THEN [registry |-> reg,
          error |-> Exception("AgentRegistrationError",
                       "Class <class '" \o agent_class \o "'> must inherit from Agent")]
    ELSE IF agent_type \in DOMAIN reg._agents
    THEN [registry |-> reg,
          error |-> Exception("AgentRegistrationError",
                       "Agent type '" \o agent_type \o "' is already registered")]
    ELSE [registry |->
            [_agents    |-> DictSet(reg._agents, agent_type,
                                    [agent_type |-> agent_type,
                                     agent_class |-> agent_class]),
             _factories |-> DictSet(reg._factories, agent_type,
                                    IF factory.kind = "default"
                                    THEN Factory("returns", agent_class)
                                    ELSE factory)],
          error |-> NoError]

\* registry.unregister_agent(agent_type): the registry afterwards
unregister_agent(reg, agent_type) ==
    IF agent_type \in DOMAIN reg._agents
    THEN [_agents    |-> DictPop(reg._agents, agent_type),
          _factories |-> DictPop(reg._factories, agent_type)]
    ELSE reg

\* registry.create_agent(agent_type, config): the agent returned or the
\* exception raised; outcome names the branch taken
create_agent(reg, agent_type) ==
    IF agent_type \notin DOMAIN reg._agents
    THEN [outcome |-> "unknown_type", agent |-> NoAgent,
          error |-> Exception("AgentNotFoundError",
                       "Agent type '" \o agent_type \o "' not found")]
    ELSE LET made == call_factory(reg._factories[agent_type])
             expected_class == reg._agents[agent_type].agent_class
             failed(e) == Exception("AgentRegistrationError",
                             "Failed to create agent '" \o agent_type \o "': " \o e)
         IN  IF made.raises
             THEN [outcome |-> "factory_raised", agent |-> NoAgent,
                   error |-> failed(made.message)]
             ELSE IF ~isinstance(made.agent, expected_class)
             THEN [outcome |-> "wrong_type", agent |-> NoAgent,
                   error |-> failed(WrongTypeMessage(agent_type, expected_class,
                                                     made.agent.class))]
             ELSE [outcome |-> "created", agent |-> made.agent, error |-> NoError]

-----------------------------------------------------------------------------
(* An AgentRegistry: agents are registered, unregistered and created *)

\* the agent types callers use
AgentTypes == {"a", "b"}

\* the texts of the exceptions a factory raises
FactoryTexts ==
    {"boom"} \cup {WrongTypeMessage(t, "StubAgent", "OtherAgent") : t \in AgentTypes}

\* the factories callers register: none given, one that returns an instance
\* of some class, one that raises
Factories ==
    {Factory("default", None)}
    \cup {Factory("returns", c) : c \in Classes}
    \cup {Factory("raises", text) : text \in FactoryTexts}

RegisterAgent ==
    /\ \E agent_type \in AgentTypes, agent_class \in Classes, factory \in Factories :
          LET r == register_agent(registry, agent_type, agent_class, factory)
          IN  /\ registry' = r.registry
              /\ op' = [name |-> "register_agent", arg |-> <<agent_type>>, ret |-> r]
    /\ UNCHANGED <<state, pipeline, agent_config, removed_types>>

UnregisterAgent ==
    /\ \E agent_type \in AgentTypes :
          /\ registry' = unregister_agent(registry, agent_type)
          /\ op' = [name |-> "unregister_agent", arg |-> <<agent_type>>,
                    ret |-> agent_type \in DOMAIN registry._agents]
    /\ UNCHANGED <<state, pipeline, agent_config, removed_types>>

CreateAgent ==
    /\ \E agent_type \in AgentTypes :
          op' = [name |-> "create_agent", arg |-> <<agent_type>>,
                 ret |-> create_agent(registry, agent_type)]
    /\ UNCHANGED <<state, pipeline, agent_config, removed_types, registry>>

NextRegistry ==
    \/ RegisterAgent
    \/ UnregisterAgent
    \/ CreateAgent

InitRegistry ==
    /\ state = AgentState
    /\ op = [name |-> "init", arg |-> <<>>, ret |-> None]
    /\ pipeline = None
    /\ agent_config = None
    /\ removed_types = {}
    /\ registry = AgentRegistry

SpecRegistry == InitRegistry /\ [][NextRegistry]_vars

-----------------------------------------------------------------------------
(* Properties of AgentState *)

\* C3: on a fresh AgentState moved only by advance_iteration, with reads and
\* writes of the mapping in between, the iteration counter equals the number
\* of snapshots in the history after every call.
C3_IterationIsHistoryLength ==
    state.iteration = Len(state.history)

C3_Witness ==
    /\ op.name = "advance_iteration"
    /\ state.iteration = 2
    /\ Len(state.history) = 2
    /\ state.history[1].data # state.history[2].data

\* C4 as stated: after a successful rollback_to_iteration the counter equals
\* the length of the history again.
C4_RollbackRestoresInvariant ==
    (op.name = "rollback_to_iteration" /\ op.ret = TRUE)
        => state.iteration = Len(state.history)

\* C4 as amended: after a successful rollback_to_iteration(i) the counter is
\* i and the history holds i + 1 snapshots, so the counter is one less than
\* the length of the history.
C4_RollbackCounterOneBehind ==
    (op.name = "rollback_to_iteration" /\ op.ret = TRUE)
        => /\ state.iteration = op.arg[1]
           /\ state.iteration = Len(state.history) - 1

C4_Witness ==
    /\ op.name = "rollback_to_iteration"
    /\ op.ret = TRUE
    /\ op.arg[1] = 1
    /\ Len(state.history) = 2

\* C5: rollback_to_iteration(i) with 0 <= i < len(history) returns true, sets
\* the mapping to the data of snapshot i, sets the counter to i and keeps
\* exactly the first i + 1 snapshots, each as it was.
C5_RollbackValid ==
    [][ (/\ op'.name = "rollback_to_iteration"
         /\ 0 <= op'.arg[1]
         /\ op'.arg[1] < Len(state.history))
        => LET i == op'.arg[1]
           IN  /\ op'.ret = TRUE
               /\ state'.data = state.history[i + 1].data
               /\ state'.iteration = i
               /\ Len(state'.history) = i + 1
               /\ \A k \in 1 .. i + 1 : state'.history[k] = state.history[k]
      ]_vars

C5_Witness ==
    /\ op.name = "rollback_to_iteration"
    /\ op.ret = TRUE
    /\ op.arg[1] = 0
    /\ Len(state.history) = 1
    /\ state.data = state.history[1].data
    /\ state.data # EmptyDict

\* C6: rollback_to_iteration(i) with i < 0 or i >= len(history) returns false
\* and leaves the mapping, the counter and the history as they were.
C6_RollbackInvalid ==
    [][ (/\ op'.name = "rollback_to_iteration"
         /\ (op'.arg[1] < 0 \/ op'.arg[1] >= Len(state.history)))
        => /\ op'.ret = FALSE
           /\ state' = state
      ]_vars

C6_Witness ==
    /\ op.name = "rollback_to_iteration"
    /\ op.ret = FALSE
    /\ op.arg[1] >= Len(state.history)
    /\ Len(state.history) = 1
    /\ state.iteration = 1
    /\ state.data # state.history[1].data

\* C7: snapshot appends exactly one Snapshot, a copy of the mapping with the
\* current iteration number, and leaves the mapping and the counter as they
\* were; so a snapshot taken right after another has the same data and the
\* same iteration number.
C7_SnapshotFrame ==
    [][ /\ op'.name = "snapshot"
            => /\ state'.data = state.data
               /\ state'.iteration = state.iteration
               /\ Len(state'.history) = Len(state.history) + 1
               /\ SubSeq(state'.history, 1, Len(state.history)) = state.history
               /\ state'.history[Len(state'.history)].data = state.data
               /\ state'.history[Len(state'.history)].iteration = state.iteration
               /\ op'.ret = state'.history[Len(state'.history)]
        /\ (op.name = "snapshot" /\ op'.name = "snapshot")
            => /\ op'.ret.data = op.ret.data
               /\ op'.ret.iteration = op.ret.iteration
      ]_vars

C7_Witness ==
    /\ op.name = "snapshot"
    /\ Len(state.history) = 2
    /\ state.iteration = 0
    /\ state.history[1].data = state.history[2].data
    /\ state.history[1].iteration = state.history[2].iteration
    /\ state.data # EmptyDict

\* C10: get_diff(i, j) for valid i and j has exactly the entries "+k" -> new
\* value for every key only in snapshot j, "-k" -> old value for every key
\* only in snapshot i and "~k" -> {from, to} for every key of both whose
\* values differ (so it is empty for i = j); for an index out of range it is
\* empty.
C10_GetDiff ==
    op.name = "get_diff" =>
        LET i == op.arg[1]
            j == op.arg[2]
            d == op.ret
            n == Len(state.history)
        IN  IF 0 <= i /\ i < n /\ 0 <= j /\ j < n
            THEN LET a == state.history[i + 1].data
                     b == state.history[j + 1].data
                     added   == DOMAIN b \ DOMAIN a
                     removed == DOMAIN a \ DOMAIN b
                     changed == {k \in DOMAIN a \cap DOMAIN b : a[k] # b[k]}
                 IN  /\ DOMAIN d = {"+" \o k : k \in added}
                                     \cup {"-" \o k : k \in removed}
                                     \cup {"~" \o k : k \in changed}
                     /\ \A k \in added : d["+" \o k] = b[k]
                     /\ \A k \in removed : d["-" \o k] = a[k]
                     /\ \A k \in changed : d["~" \o k] = [from |-> a[k], to |-> b[k]]
                     /\ (i = j => DOMAIN d = {})
            ELSE DOMAIN d = {}

\* the diff of {"x": 1} and {"x": 2, "y": 1} is {"~x": {from: 1, to: 2}, "+y": 1}
C10_Witness ==
    /\ op.name = "get_diff"
    /\ op.arg = <<0, 1>>
    /\ Len(state.history) = 2
    /\ state.history[1].data = [k \in {"x"} |-> 1]
    /\ state.history[2].data = [k \in {"x", "y"} |-> IF k = "x" THEN 2 ELSE 1]
    /\ DOMAIN op.ret = {"~x", "+y"}
    /\ op.ret["~x"] = [from |-> 1, to |-> 2]
    /\ op.ret["+y"] = 1

-----------------------------------------------------------------------------
(* Properties of AgentPipeline.run *)

\* the configuration was constructed with max_iterations alone: its only
\* terminal condition is the max-iterations one __post_init__ added
DefaultConditions(config) ==
    /\ Len(config.terminal_conditions) = 1
    /\ config.terminal_conditions[1].type = "max_iterations"
    /\ config.terminal_conditions[1].value = config.max_iterations

\* C1: with max_iterations = N > 0 as the only terminal condition, and an
\* agent whose code never raises and whose execute_iteration never returns a
\* terminal result, run calls execute_iteration exactly N times and returns
\* with iteration N, N snapshots in the history and final status completed.
C1_StopsAfterMaxIterations ==
    (/\ pipeline.pc = "returned"
     /\ DefaultConditions(pipeline.agent.config)
     /\ pipeline.agent.config.max_iterations > 0
     /\ pipeline.n_raised = 0
     /\ (pipeline.agent.iteration_count = 0 \/ ~pipeline.last.terminal))
    => LET N == pipeline.agent.config.max_iterations
       IN  /\ pipeline.n_exec = N
           /\ pipeline.bundle.final_state.iteration = N
           /\ Len(pipeline.bundle.final_state.history) = N
           /\ pipeline.bundle.pipeline_status.final_status = "completed"
           /\ pipeline.bundle.pipeline_status.total_iterations = N

C1_Witness ==
    /\ pipeline.pc = "returned"
    /\ DefaultConditions(pipeline.agent.config)
    /\ pipeline.agent.config.max_iterations = 3
    /\ pipeline.n_raised = 0
    /\ pipeline.n_exec = 3
    /\ ~pipeline.last.terminal
    /\ Len(pipeline.bundle.final_state.history) = 3
    /\ pipeline.bundle.final_state.data = Dict1("count", 2)
    /\ pipeline.bundle.pipeline_status.final_status = "completed"

\* C2: when execute_iteration returns a terminal result (and the
\* post-iteration hook returns), the loop is left in that pass: the terminal
\* conditions are not evaluated after the iteration, the pipeline's status
\* is the result's status, and no further iteration is made.  So a terminal
\* result on iteration k of a run in which nothing raised leaves k
\* iterations, k evaluations before them and k - 1 after them, whatever
\* max_iterations is; and run returns the result's status, with "running"
\* turned into "completed".
C2_TerminalResultEndsLoop ==
    [][ /\ (/\ pipeline.pc = "loop"
            /\ pipeline'.agent.iteration_count = pipeline.agent.iteration_count + 1
            /\ pipeline'.n_raised = pipeline.n_raised
            /\ pipeline'.last.terminal)
           => /\ pipeline'.pc = "finalize"
              /\ pipeline'.agent_status = pipeline'.last.status
              /\ pipeline'.n_exec = pipeline.n_exec + 1
              /\ pipeline'.n_eval = pipeline.n_eval + 1
        /\ (/\ pipeline'.pc \in {"finalize", "returned"}
            /\ pipeline'.n_raised = 0
            /\ pipeline'.agent.iteration_count > 0
            /\ pipeline'.last.terminal)
           => /\ pipeline'.n_exec = pipeline'.state.iteration
              /\ pipeline'.n_eval = 2 * pipeline'.n_exec - 1
              /\ pipeline'.pc = "returned" =>
                    pipeline'.bundle.pipeline_status.final_status =
                        IF pipeline'.last.status = "running" THEN "completed"
                        ELSE pipeline'.last.status
      ]_vars

C2_Witness ==
    /\ pipeline.pc = "returned"
    /\ DefaultConditions(pipeline.agent.config)
    /\ pipeline.agent.config.max_iterations = 3
    /\ pipeline.n_raised = 0
    /\ pipeline.n_exec = 1
    /\ pipeline.n_eval = 1
    /\ pipeline.last.terminal
    /\ pipeline.last.status = "failed"
    /\ pipeline.bundle.final_state.iteration = 1
    /\ pipeline.bundle.pipeline_status.final_status = "failed"

-----------------------------------------------------------------------------
(* Properties of CompositeAgent *)

\* the nested run of the step called name ended with final status status
StepEnded(a, name, status) ==
    /\ name \in DOMAIN a.step_results
    /\ a.step_results[name].pipeline_status.final_status = status

\* C8: a sequential composite with the steps [A, B] whose step A ended
\* completed and whose step B ended failed returns the final status failed,
\* and its final state holds failed_step = "B" and the key A_result (A's
\* final data).
C8_SequentialFailure ==
    (/\ pipeline.pc = "returned"
     /\ pipeline.agent.workflow_mode = "sequential"
     /\ Len(pipeline.agent.steps) = 2
     /\ StepEnded(pipeline.agent, "A", "completed")
     /\ StepEnded(pipeline.agent, "B", "failed"))
    => LET data == pipeline.bundle.final_state.data
       IN  /\ pipeline.bundle.pipeline_status.final_status = "failed"
           /\ "failed_step" \in DOMAIN data
           /\ data["failed_step"] = "B"
           /\ "A_result" \in DOMAIN data
           /\ data["A_result"] =
                  pipeline.agent.step_results["A"].final_state.data
           /\ pipeline.agent.completed_steps = <<"A">>
           /\ pipeline.agent.failed_steps = <<"B">>

C8_Witness ==
    /\ pipeline.pc = "returned"
    /\ pipeline.agent.workflow_mode = "sequential"
    /\ Len(pipeline.agent.steps) = 2
    /\ StepEnded(pipeline.agent, "A", "completed")
    /\ StepEnded(pipeline.agent, "B", "failed")
    /\ pipeline.n_exec = 2
    /\ pipeline.n_raised = 0
    /\ pipeline.bundle.pipeline_status.final_status = "failed"
    /\ pipeline.bundle.final_state.data["failed_step"] = "B"
    /\ pipeline.bundle.final_state.data["A_result"] = Dict1("count", 2)

\* the step at position k was run by this call of execute_iteration: its
\* name was appended to completed_steps or to failed_steps, its nested run's
\* results were stored, and no other step was touched
StepRan(a, b, k) ==
    LET name == a.steps[k].step_id
    IN  /\ \/ /\ b.completed_steps = Append(a.completed_steps, name)
              /\ b.failed_steps = a.failed_steps
           \/ /\ b.failed_steps = Append(a.failed_steps, name)
              /\ b.completed_steps = a.completed_steps
        /\ DOMAIN b.step_results = DOMAIN a.step_results \cup {name}
        /\ \A j \in 1 .. Len(a.steps) : j # k => b.steps[j] = a.steps[j]

\* the step at position k may be selected: it is not in completed_steps and
\* it has no guard or its guard holds on the parent state
MayRun(a, s, k) ==
    /\ ~Contains(a.completed_steps, a.steps[k].step_id)
    /\ a.steps[k].condition # None => condition_holds(a.steps[k].condition, s)

\* C9: every call of execute_iteration on a conditional composite runs the
\* first step, in list order, that is not completed and whose guard is
\* absent or true on the parent state at that moment, and no other step;
\* when there is no such step it runs none.  With the steps [A (guard
\* false), B (guard true)] the first iteration runs B and not A.
C9_ConditionalSelectsFirst ==
    [][ (/\ pipeline.pc = "loop"
         /\ pipeline.agent.workflow_mode = "conditional"
         /\ pipeline'.n_exec = pipeline.n_exec + 1)
        => LET a == pipeline.agent
               b == pipeline'.agent
               s == pipeline.state
           IN  /\ \A k \in 1 .. Len(a.steps) :
                     (MayRun(a, s, k) /\ \A j \in 1 .. k - 1 : ~MayRun(a, s, j))
                     => StepRan(a, b, k)
               /\ (\A k \in 1 .. Len(a.steps) : ~MayRun(a, s, k))
                     => /\ b.steps = a.steps
                        /\ b.step_results = a.step_results
                        /\ b.completed_steps = a.completed_steps
                        /\ b.failed_steps = a.failed_steps
               /\ (/\ pipeline.n_exec = 0
                   /\ Len(a.steps) = 2
                   /\ a.steps[1].condition = "false"
                   /\ a.steps[2].condition = "true")
                     => /\ DOMAIN b.step_results = {"B"}
                        /\ b.steps[1].agent = a.steps[1].agent
      ]_vars

C9_Witness ==
    /\ pipeline.agent.workflow_mode = "conditional"
    /\ Len(pipeline.agent.steps) = 2
    /\ pipeline.agent.steps[1].condition = "false"
    /\ pipeline.agent.steps[2].condition = "true"
    /\ pipeline.n_exec = 1
    /\ pipeline.n_raised = 0
    /\ DOMAIN pipeline.agent.step_results = {"B"}
    /\ pipeline.agent.completed_steps = <<"B">>
    /\ pipeline.agent.steps[1].agent.iteration_count = 0
    /\ pipeline.agent.steps[2].agent.iteration_count > 0

-----------------------------------------------------------------------------
(* Properties of AgentConfig *)

\* C11: a configuration holds a max-iterations condition whose value is its
\* max_iterations, unless remove_terminal_condition was called for that
\* type; so does a configuration constructed with a list of other conditions.
C11_MaxIterationsAlwaysPresent ==
    "max_iterations" \notin removed_types
    => \E k \in 1 .. Len(agent_config.terminal_conditions) :
          /\ agent_config.terminal_conditions[k].type = "max_iterations"
          /\ agent_config.terminal_conditions[k].value = agent_config.max_iterations

-----------------------------------------------------------------------------
(* Properties of AgentPipeline.run: errors *)

\* this step is a pass in which execute_iteration was called and raised
ExecuteIterationRaised ==
    /\ pipeline.pc = "loop"
    /\ pipeline'.n_exec = pipeline.n_exec + 1
    /\ pipeline'.agent.iteration_count = pipeline.agent.iteration_count

\* C12: when execute_iteration raises, the run stops in that pass, whether
\* the Result of on_error is terminal or not: no further pass is made; if
\* on_error returned a terminal Result the run's status is that Result's.
C12_IterationErrorStopsRun ==
    [][ ExecuteIterationRaised
        => /\ pipeline'.pc \in {"finalize", "returned"}
           /\ pipeline'.pc = "finalize" => pipeline'.agent_status = "failed"
      ]_vars

\* C13: in every run the agent's initialize is called exactly once, before
\* any execute_iteration, and its finalize exactly once, after the last
\* execute_iteration: at no time has finalize been called before the loop
\* was left, and when run returns, on any path, both have been called once.
C13_LifecycleOrder ==
    /\ pipeline.n_init <= 1
    /\ pipeline.n_final <= 1
    /\ pipeline.n_exec > 0 => pipeline.n_init = 1
    /\ pipeline.n_final > 0 => pipeline.pc = "returned"
    /\ pipeline.pc = "returned" => pipeline.n_init = 1 /\ pipeline.n_final = 1

\* the passes in which one of the agent's own hooks raises, with anything
\* execute_iteration and on_error may do
HookRaisingPasses ==
    {[pre_hook_raises |-> pre, exec |-> e, post_hook_raises |-> ~pre, on_error |-> h,
      takes |-> 0] :
        pre \in BOOLEAN,
        e \in {Raises} \cup {Returns(r) : r \in StubResults},
        h \in OnError}

\* the pass b with its hooks returning
HooksReturn(b) ==
    [b EXCEPT !.pre_hook_raises = FALSE, !.post_hook_raises = FALSE]

\* two pipelines are at the same place of the loop after the same
\* iterations, with the same status and the same state
SameRun(p, q) ==
    /\ p.pc = "loop" <=> q.pc = "loop"
    /\ p.n_exec = q.n_exec
    /\ p.agent.iteration_count = q.agent.iteration_count
    /\ p.agent_status = q.agent_status
    /\ p.state = q.state

\* C14: a pre_iteration_hook or post_iteration_hook of the agent that raises
\* does not alter the run: the pass in which it raises leaves the pipeline
\* where the same pass with the hook returning leaves it, with the same
\* iterations made, the same status and the same state.
C14_HooksNeverAlterControlFlow ==
    [][ pipeline.pc = "loop"
        => \A b \in HookRaisingPasses :
              pipeline' = loop_pass(pipeline, b)
              => SameRun(pipeline', loop_pass(pipeline, HooksReturn(b)))
      ]_vars

\* C15: whatever the agent's code did (initialize, a hook, execute_iteration,
\* on_error or finalize raising included), what run returns is a bundle with
\* pipeline_status.final_status, pipeline_status.errors (the errors the
\* pipeline recorded) and final_state (the AgentState of the run as it was
\* last).  When the run ended in run's own exception handler the final
\* status is failed and the exception is in errors and under pipeline_error;
\* when it ended on the terminal Result of on_error the final status is that
\* Result's, failed.
C15_RunReturnsBundle ==
    pipeline.pc = "returned"
    => /\ {"pipeline_status", "final_state", "agent_results"}
              \subseteq DOMAIN pipeline.bundle
       /\ {"final_status", "errors", "total_iterations"}
              \subseteq DOMAIN pipeline.bundle.pipeline_status
       /\ pipeline.bundle.pipeline_status.errors = pipeline.errors
       /\ pipeline.bundle.final_state = to_dict(pipeline.state)
       /\ pipeline.bundle.final_state.iteration = pipeline.agent.iteration_count
       /\ pipeline.exit = "pipeline_error"
            => /\ pipeline.bundle.pipeline_status.final_status = "failed"
               /\ Len(pipeline.bundle.pipeline_status.errors) > 0
               /\ "pipeline_error" \in DOMAIN pipeline.bundle
               /\ pipeline.bundle.pipeline_error =
                     pipeline.errors[Len(pipeline.errors)]
       /\ pipeline.exit = "error_result"
            => /\ pipeline.bundle.pipeline_status.final_status = "failed"
               /\ Len(pipeline.bundle.pipeline_status.errors) > 0

C15_Witness ==
    /\ pipeline.pc = "returned"
    /\ pipeline.exit = "pipeline_error"
    /\ pipeline.n_exec = 2
    /\ pipeline.agent.iteration_count = 1
    /\ pipeline.last.status = "completed"
    /\ pipeline.bundle.final_state.iteration = 1
    /\ pipeline.bundle.final_state.data = Dict1("count", 2)
    /\ pipeline.bundle.pipeline_status.final_status = "failed"
    /\ pipeline.bundle.pipeline_status.errors = <<"on_error failed">>

-----------------------------------------------------------------------------
(* Properties of CompositeAgent: failures *)

\* C16: a run that ends with final status failed carries a populated error:
\* the bundle's errors list is not empty, and when the run was ended by a
\* terminal Result, that Result has status failed and an error.  So for a
\* CompositeAgent in any mode whose step failed.
C16_FailureCarriesError ==
    (/\ pipeline.pc = "returned"
     /\ pipeline.bundle.pipeline_status.final_status = "failed")
    => /\ Len(pipeline.bundle.pipeline_status.errors) > 0
       /\ pipeline.exit = "terminal_result"
            => /\ pipeline.last.status = "failed"
               /\ pipeline.last.error # None

-----------------------------------------------------------------------------
(* Properties of AgentPipeline.run: terminal conditions *)

\* the k-th configured terminal condition holds of the pipeline's state and
\* status
ConditionHolds(p, k) ==
    _evaluate_single_condition(p, p.agent.config.terminal_conditions[k])

\* this step is a pass in which execute_iteration returned a Result that is
\* not terminal and the post_iteration_hook returned
IterationHandled ==
    /\ pipeline.pc = "loop"
    /\ pipeline'.agent.iteration_count = pipeline.agent.iteration_count + 1
    /\ pipeline'.n_raised = pipeline.n_raised
    /\ ~pipeline'.last.terminal

\* C17: the terminal conditions are evaluated at the start of every pass and
\* again after every iteration whose Result is not terminal, and one
\* condition that holds is enough: when any configured condition holds at
\* the start of a pass the loop is left without a call of execute_iteration,
\* and when any holds after a handled iteration the loop is left there,
\* whatever the other conditions evaluate to.
C17_AnyConditionStops ==
    [][ /\ pipeline.pc = "loop" => pipeline'.n_eval >= pipeline.n_eval + 1
        /\ \A k \in 1 .. Len(pipeline.agent.config.terminal_conditions) :
              (pipeline.pc = "loop" /\ ConditionHolds(pipeline, k))
              => /\ pipeline'.n_exec = pipeline.n_exec
                 /\ pipeline'.pc = "finalize"
                 /\ pipeline'.exit = "pre_condition"
                 /\ pipeline'.state = pipeline.state
        /\ IterationHandled
              => /\ pipeline'.n_eval = pipeline.n_eval + 2
                 /\ \A k \in 1 .. Len(pipeline.agent.config.terminal_conditions) :
                       ConditionHolds(pipeline', k)
                       => /\ pipeline'.pc = "finalize"
                          /\ pipeline'.exit = "post_condition"
      ]_vars

C17_Witness ==
    /\ pipeline.pc = "finalize"
    /\ pipeline.exit = "post_condition"
    /\ Len(pipeline.agent.config.terminal_conditions) = 2
    /\ ~ConditionHolds(pipeline, 1)
    /\ ConditionHolds(pipeline, 2)
    /\ pipeline.agent.config.max_iterations = 3
    /\ pipeline.n_exec = 2
    /\ pipeline.state.iteration = 2

\* the evaluation of this condition calls a predicate that raises
RaisingCondition(condition) ==
    /\ condition.type \in {"state_condition", "custom_condition"}
    /\ callable(condition.value)
    /\ condition.value["__call__"] = "raises"

\* the pipeline p with every condition whose predicate raises replaced by a
\* condition of the same type whose predicate returns false
WithoutRaisingConditions(p) ==
    [p EXCEPT !.agent.config.terminal_conditions =
        [k \in 1 .. Len(@) |->
            IF RaisingCondition(@[k])
            THEN TerminalCondition(@[k].type, Callable("false"))
            ELSE @[k]]]

\* C18: a state-predicate or custom-predicate condition whose evaluation
\* raises counts as not met: it never holds, and every pass of a pipeline
\* configured with such conditions does what the same pass does when those
\* predicates return false -- the other conditions decide as before, and the
\* status and the recorded errors are the same.
C18_RaisingConditionNotMet ==
    (/\ pipeline.pc = "loop"
     /\ \E k \in 1 .. Len(pipeline.agent.config.terminal_conditions) :
           RaisingCondition(pipeline.agent.config.terminal_conditions[k]))
    => /\ \A k \in 1 .. Len(pipeline.agent.config.terminal_conditions) :
             RaisingCondition(pipeline.agent.config.terminal_conditions[k])
             => ~ConditionHolds(pipeline, k)
       /\ \A b \in PassBehaviours(pipeline.agent) :
             loop_pass(pipeline, b) =
                [loop_pass(WithoutRaisingConditions(pipeline), b)
                    EXCEPT !.agent.config = pipeline.agent.config]

C18_Witness ==
    /\ pipeline.pc = "finalize"
    /\ pipeline.exit = "post_condition"
    /\ Len(pipeline.agent.config.terminal_conditions) = 3
    /\ RaisingCondition(pipeline.agent.config.terminal_conditions[1])
    /\ RaisingCondition(pipeline.agent.config.terminal_conditions[2])
    /\ ConditionHolds(pipeline, 3)
    /\ pipeline.n_exec = 2
    /\ pipeline.n_eval = 4
    /\ pipeline.n_raised = 0
    /\ pipeline.agent_status = "running"
    /\ pipeline.errors = <<>>

-----------------------------------------------------------------------------
(* Properties of CompositeAgent: sequential mode *)

\* the names of the first n steps, in list order
FirstSteps(a, n) == [k \in 1 .. n |-> a.steps[k].step_id]

\* C19: in sequential mode every composite iteration runs the step at the
\* cursor and no other.  When it is run, the steps before it, and only
\* they, have been run, each once, in list order, and each nested run ended
\* completed; no step has failed.  A step that ends completed moves the
\* cursor by one, and the Result is terminal (with status completed) exactly
\* when it was the last step; a step that does not end completed ends the
\* run with a terminal failed Result, so no later step is run.
C19_SequentialOrder ==
    [][ (/\ pipeline.pc = "loop"
         /\ pipeline.agent.workflow_mode = "sequential"
         /\ pipeline'.n_exec = pipeline.n_exec + 1)
        => LET a == pipeline.agent
               b == pipeline'.agent
               i == a.current_step_index
               n == Len(a.steps)
           IN  /\ a.failed_steps = <<>>
               /\ i <= n
               /\ a.completed_steps = FirstSteps(a, i)
               /\ DOMAIN a.step_results = {a.steps[k].step_id : k \in 1 .. i}
               /\ \A k \in 1 .. i : StepEnded(a, a.steps[k].step_id, "completed")
               /\ i < n =>
                    /\ StepRan(a, b, i + 1)
                    /\ IF StepEnded(b, a.steps[i + 1].step_id, "completed")
                       THEN /\ b.current_step_index = i + 1
                            /\ b.completed_steps = FirstSteps(a, i + 1)
                            /\ pipeline'.last.terminal <=> i + 1 = n
                            /\ i + 1 = n => /\ pipeline'.last.status = "completed"
                                            /\ pipeline'.pc = "finalize"
                            /\ i + 1 < n => pipeline'.last.status = "running"
                       ELSE /\ b.current_step_index = i
                            /\ b.failed_steps = <<a.steps[i + 1].step_id>>
                            /\ pipeline'.last.terminal
                            /\ pipeline'.last.status = "failed"
                            /\ pipeline'.pc = "finalize"
               /\ i = n =>
                    /\ b.step_results = a.step_results
                    /\ b.steps = a.steps
                    /\ pipeline'.last.terminal
      ]_vars

C19_Witness ==
    /\ pipeline.pc = "finalize"
    /\ pipeline.agent.workflow_mode = "sequential"
    /\ Len(pipeline.agent.steps) = 3
    /\ pipeline.agent.completed_steps = <<"A", "B", "C">>
    /\ pipeline.agent.current_step_index = 3
    /\ pipeline.n_exec = 3
    /\ pipeline.last.terminal
    /\ pipeline.last.status = "completed"
    /\ StepEnded(pipeline.agent, "A", "completed")
    /\ StepEnded(pipeline.agent, "B", "completed")
    /\ StepEnded(pipeline.agent, "C", "completed")

-----------------------------------------------------------------------------
(* Properties of CompositeAgent: conditional mode *)

\* C20: a composite iteration in conditional mode that runs a step records
\* the step's outcome and returns a Result that is not terminal, whether the
\* step's nested run ended completed or not.
C20_ConditionalStaysNonTerminal ==
    [][ (/\ pipeline.pc = "loop"
         /\ pipeline.agent.workflow_mode = "conditional"
         /\ pipeline'.n_exec = pipeline.n_exec + 1)
        => \A k \in 1 .. Len(pipeline.agent.steps) :
              StepRan(pipeline.agent, pipeline'.agent, k)
              => /\ ~pipeline'.last.terminal
                 /\ pipeline'.exit # "terminal_result"
      ]_vars

-----------------------------------------------------------------------------
(* Properties of CompositeAgent: loop mode *)

\* this step is a pass in which the composite's execute_iteration was called
\* in the workflow mode mode
CompositeIteration(mode) ==
    /\ pipeline.pc = "loop"
    /\ pipeline.agent.workflow_mode = mode
    /\ pipeline'.n_exec = pipeline.n_exec + 1

\* C21: in loop mode execute_iteration never returns a terminal Result, also
\* when the nested run of the step it ran failed: the loop of the composite's
\* pipeline is never left on a Result, only on a terminal condition.  Stated
\* for the composites that have a step to run.
C21_LoopNeverSelfTerminates ==
    [][ (CompositeIteration("loop") /\ Len(pipeline.agent.steps) > 0)
        => /\ ~pipeline'.last.terminal
           /\ pipeline'.pc = "finalize" => pipeline'.exit = "post_condition"
      ]_vars

\* C22: in loop mode with a step list that is not empty, the n-th call of
\* execute_iteration of a run (n = 0, 1, 2, ...) runs the step at position
\* n mod len(steps) of the list and no other, and the cursor is within
\* 0 .. len(steps) - 1 before and after.
C22_LoopCyclesThroughSteps ==
    [][ (CompositeIteration("loop") /\ Len(pipeline.agent.steps) > 0)
        => LET a == pipeline.agent
               b == pipeline'.agent
               n == pipeline.n_exec
               len == Len(a.steps)
           IN  /\ a.current_step_index = n % len
               /\ StepRan(a, b, (n % len) + 1)
               /\ b.current_step_index = (n + 1) % len
               /\ a.current_step_index \in 0 .. len - 1
               /\ b.current_step_index \in 0 .. len - 1
      ]_vars

C22_Witness ==
    /\ pipeline.agent.workflow_mode = "loop"
    /\ Len(pipeline.agent.steps) = 2
    /\ pipeline.n_exec = 3
    /\ pipeline.agent.completed_steps = <<"A", "B", "A">>
    /\ pipeline.agent.current_step_index = 1
    /\ pipeline.state.iteration = 3

-----------------------------------------------------------------------------
(* Properties of CompositeAgent: what reaches the parent state *)

\* the keys the parent state holds after the step but not before
NewKeys == DOMAIN pipeline'.state.data \ DOMAIN pipeline.state.data

-----------------------------------------------------------------------------
(* Properties of CompositeAgent: the states of nested runs *)

\* the state a run ends with was fresh when the run started: the counter
\* counts the snapshots, and the snapshots are numbered 0, 1, 2, ...
StartedFresh(final_state) ==
    /\ Len(final_state.history) = final_state.iteration
    /\ \A j \in 1 .. Len(final_state.history) :
          final_state.history[j].iteration = j - 1

\* C24: every run works on its own fresh AgentState.  In a composite
\* iteration that runs a step, the nested run's final state started at
\* iteration 0 with an empty history whatever the parent state holds, the
\* parent's history is the old one with one snapshot appended, and the
\* parent's counter grows by exactly one however many iterations the nested
\* run performed.
C24_NestedRunOwnsFreshState ==
    [][ \A mode \in {"sequential", "conditional", "loop"} :
          \A k \in 1 .. Len(pipeline.agent.steps) :
             (CompositeIteration(mode) /\ StepRan(pipeline.agent, pipeline'.agent, k))
             => LET name    == pipeline.agent.steps[k].step_id
                    results == pipeline'.agent.step_results[name]
                    old     == pipeline.state
                    new     == pipeline'.state
                IN  /\ StartedFresh(results.final_state)
                    /\ StartedFresh(to_dict(old))
                    /\ new.iteration = old.iteration + 1
                    /\ Len(new.history) = Len(old.history) + 1
                    /\ SubSeq(new.history, 1, Len(old.history)) = old.history
                    /\ new.history[Len(new.history)].iteration = old.iteration
      ]_vars

\* the second run of a loop's only step performed two iterations on a state
\* of its own, and the parent's counter stands at two
C24_Witness ==
    /\ pipeline.agent.workflow_mode = "loop"
    /\ Len(pipeline.agent.steps) = 1
    /\ pipeline.n_exec = 2
    /\ pipeline.state.iteration = 2
    /\ Len(pipeline.state.history) = 2
    /\ pipeline.agent.step_results["A"].final_state.iteration = 2
    /\ pipeline.agent.step_results["A"].final_state.history[1].iteration = 0
    /\ pipeline.state.data["step_result"].final_state.iteration = 2


-----------------------------------------------------------------------------
(* Properties of CompositeAgent: step failures *)

RECURSIVE InnermostFailed(_)

\* a step of a, or of a composite that is a step of a, and so on, is
\* recorded as failed
InnermostFailed(a) ==
    /\ a.kind = "composite"
    /\ \/ Len(a.failed_steps) > 0
       \/ \E k \in 1 .. Len(a.steps) : InnermostFailed(a.steps[k].agent)

\* C25, one level: a composite iteration whose step's nested run did not
\* end completed returns a terminal Result with status failed whose data
\* holds failed_step = the step's id, the id is in failed_steps, and the
\* pipeline leaves the loop with status failed.
C25_StepFailurePropagates ==
    [][ \A mode \in {"sequential", "conditional", "loop"} :
          \A k \in 1 .. Len(pipeline.agent.steps) :
             LET name == pipeline.agent.steps[k].step_id
             IN  (/\ CompositeIteration(mode)
                  /\ StepRan(pipeline.agent, pipeline'.agent, k)
                  /\ ~StepEnded(pipeline'.agent, name, "completed"))
                 => /\ pipeline'.last.status = "failed"
                    /\ pipeline'.last.terminal
                    /\ "failed_step" \in DOMAIN pipeline'.last.data
                    /\ pipeline'.last.data["failed_step"] = name
                    /\ Contains(pipeline'.agent.failed_steps, name)
                    /\ pipeline'.state.data["failed_step"] = name
                    /\ pipeline'.pc = "finalize"
                    /\ pipeline'.agent_status = "failed"
      ]_vars

\* C25, through recursive composition: when run has returned and a step at
\* any depth of nested composites is recorded as failed, the outermost
\* pipeline's final status is failed and the outermost composite has
\* recorded its own step as failed.
C25_FailurePropagatesOutwards ==
    (pipeline.pc = "returned" /\ InnermostFailed(pipeline.agent))
    => /\ pipeline.bundle.pipeline_status.final_status = "failed"
       /\ pipeline.agent_status = "failed"
       /\ Len(pipeline.agent.failed_steps) > 0

-----------------------------------------------------------------------------
(* Properties of CompositeAgent: a step's max_iterations *)

\* C26: when a step with the override max_iterations = M is run and its
\* agent never returns a terminal Result (and nothing raises), the step's
\* nested run performs exactly M iterations.
C26_StepOverrideBoundsNestedRun ==
    [][ \A mode \in {"sequential", "conditional", "loop"} :
          \A k \in 1 .. Len(pipeline.agent.steps) :
             LET step == pipeline.agent.steps[k]
             IN  (/\ CompositeIteration(mode)
                  /\ StepRan(pipeline.agent, pipeline'.agent, k)
                  /\ step.max_iterations # 0
                  /\ pipeline' = loop_pass(pipeline, Pass(Run(<<>>))))
                 => pipeline'.agent.step_results[step.step_id]
                        .final_state.iteration = step.max_iterations
      ]_vars


-----------------------------------------------------------------------------
(* Properties of AgentConfig: serialization *)

\* no condition of c holds a function as its value
PlainData(c) ==
    \A k \in 1 .. Len(c.terminal_conditions) :
       LET tc == c.terminal_conditions[k]
       IN  /\ tc.type # "custom_condition"
           /\ tc.type = "state_condition" => ~callable(tc.value)

\* C27: for every configuration c whose condition values are plain data,
\* AgentConfig.from_dict(c.to_dict()) equals c field by field, the list of
\* terminal conditions included, also when that list is empty.
C27_ConfigRoundTrips ==
    (op.name = "from_dict" /\ PlainData(agent_config))
    => /\ op.ret.name = agent_config.name
       /\ op.ret.max_iterations = agent_config.max_iterations
       /\ op.ret.terminal_conditions = agent_config.terminal_conditions


-----------------------------------------------------------------------------
(* Properties of AgentRegistry *)

\* every registry with agent_type registered once
RegistriesOf(agent_type) ==
    {register_agent(AgentRegistry, agent_type, c, f).registry :
        c \in Classes \ {"object"}, f \in Factories}
    \cup {AgentRegistry}

\* C28: create_agent has three error outcomes (unknown type, the factory
\* returned an instance of the wrong class, the factory or constructor
\* raised), and the errors of two calls with different outcomes differ, in
\* class or in text, so that a caller can tell the outcome from the error;
\* a call that returns gives an instance of the class registered for the
\* type.
C28_CreateAgentErrorsDistinct ==
    op.name = "create_agent"
    => LET agent_type == op.arg[1]
           this == op.ret
       IN  /\ this.outcome = "created"
               => isinstance(this.agent, registry._agents[agent_type].agent_class)
           /\ this.outcome # "created"
               => \A reg \in RegistriesOf(agent_type) :
                     LET other == create_agent(reg, agent_type)
                     IN  (other.outcome # "created" /\ other.outcome # this.outcome)
                         => other.error # this.error


-----------------------------------------------------------------------------
(* Properties of AgentPipeline.run: the iteration counter *)

\* C29: in a pass in which execute_iteration is called and returns a Result,
\* the Result's data is merged into the state, a snapshot holding the merged
\* data (and the old counter and the Result's message) is appended to the
\* history, and the counter grows by exactly one; in a pass in which
\* execute_iteration raises, the counter and the history stay as they were.
C29_CounterGrowsAfterHandledIteration ==
    [][ (pipeline.pc = "loop" /\ pipeline'.n_exec = pipeline.n_exec + 1)
        => LET old == pipeline.state
               new == pipeline'.state
           IN  IF pipeline'.agent.iteration_count = pipeline.agent.iteration_count + 1
               THEN LET result == pipeline'.last
                        merged == DictUpdate(old.data, result.data)
                    IN  /\ new.data = merged
                        /\ new.iteration = old.iteration + 1
                        /\ new.history =
                              Append(old.history,
                                     [iteration |-> old.iteration,
                                      data      |-> merged,
                                      message   |-> result.message])
               ELSE /\ ExecuteIterationRaised
                    /\ new.iteration = old.iteration
                    /\ new.history = old.history
      ]_vars

\* execute_iteration raised once and on_error recovered, then it returned a
\* Result with data: one snapshot, which holds the data, and the counter at 1
C29_Witness ==
    /\ pipeline.agent.kind = "stub"
    /\ pipeline.n_exec = 2
    /\ pipeline.n_raised = 1
    /\ pipeline.agent.iteration_count = 1
    /\ pipeline.state.iteration = 1
    /\ Len(pipeline.state.history) = 1
    /\ pipeline.state.history[1].data = Dict1("count", 2)
    /\ pipeline.state.history[1].iteration = 0


-----------------------------------------------------------------------------
(* Properties of AgentPipeline.run: the status *)

\* the moves along Initializing -> Running -> {Completed, Failed}
StatusMoves ==
    {<<"initializing", "running">>, <<"initializing", "failed">>,
     <<"running", "completed">>, <<"running", "failed">>}

\* execute_iteration is called only while the status is Running
CalledWhileRunning ==
    pipeline'.n_exec # pipeline.n_exec => pipeline.agent_status = "running"

\* when run returns, the final status it reports is the pipeline's status,
\* which is completed or failed; on the normal path it is completed unless
\* another status than running was recorded before
FinalStatus ==
    (pipeline.pc # "returned" /\ pipeline'.pc = "returned")
    => /\ pipeline'.bundle.pipeline_status.final_status = pipeline'.agent_status
       /\ pipeline'.agent_status \in {"completed", "failed"}
       /\ (pipeline.pc = "finalize" /\ pipeline'.exit # "pipeline_error")
            => pipeline'.agent_status = IF pipeline.agent_status = "running"
                                        THEN "completed"
                                        ELSE pipeline.agent_status

\* C30 as stated: the status changes only by a move along Initializing ->
\* Running -> {Completed, Failed}; execute_iteration is called only while
\* Running; the final status is completed unless a failed status was
\* recorded, and is never running or initializing.
C30_StatusMovesOnlyForward ==
    [][ /\ pipeline'.agent_status # pipeline.agent_status
            => <<pipeline.agent_status, pipeline'.agent_status>> \in StatusMoves
        /\ CalledWhileRunning
        /\ FinalStatus
      ]_vars

\* C30 amended: as stated, but for one more move: the status Completed that
\* was taken from a terminal Result becomes Failed when finalize (or a
\* callback before the return) raises.
C30_StatusMovesForwardOrFails ==
    [][ /\ pipeline'.agent_status # pipeline.agent_status
            => \/ <<pipeline.agent_status, pipeline'.agent_status>> \in StatusMoves
               \/ /\ pipeline.agent_status = "completed"
                  /\ pipeline'.agent_status = "failed"
                  /\ pipeline.pc = "finalize"
                  /\ pipeline.last.terminal
                  /\ pipeline.last.status = "completed"
                  /\ pipeline'.exit = "pipeline_error"
        /\ CalledWhileRunning
        /\ FinalStatus
      ]_vars

\* a run whose agent returned a terminal Result with status completed and
\* whose finalize raised: the status went from Completed to Failed
C30_Witness ==
    /\ pipeline.agent.kind = "stub"
    /\ pipeline.pc = "returned"
    /\ pipeline.exit = "pipeline_error"
    /\ pipeline.n_exec = 2
    /\ pipeline.n_final = 1
    /\ pipeline.last.terminal
    /\ pipeline.last.status = "completed"
    /\ pipeline.agent_status = "failed"
    /\ pipeline.bundle.pipeline_status.final_status = "failed"


-----------------------------------------------------------------------------
(* Properties of AgentPipeline.run: timeout conditions *)

\* the configuration holds a timeout condition and the time since the run
\* started is at least its value
TimedOut(p) ==
    \E k \in 1 .. Len(p.agent.config.terminal_conditions) :
       LET tc == p.agent.config.terminal_conditions[k]
       IN  tc.type = "timeout" /\ duration(p) >= tc.value

\* C31: a timeout condition is checked only at iteration boundaries.  A call
\* of execute_iteration during which the time runs out is not interrupted:
\* it is counted and its Result, if it returns one, is handled.  And once
\* the elapsed time is at least the timeout at a boundary, no further call
\* of execute_iteration is started.
C31_TimeoutAtBoundaries ==
    [][ /\ (pipeline.pc = "loop" /\ TimedOut(pipeline))
            => /\ pipeline'.n_exec = pipeline.n_exec
               /\ pipeline'.pc = "finalize"
        /\ (pipeline.pc = "loop" /\ ~TimedOut(pipeline) /\ TimedOut(pipeline')
              /\ pipeline'.n_exec = pipeline.n_exec + 1
              /\ pipeline'.agent.iteration_count = pipeline.agent.iteration_count + 1)
            => pipeline'.state.iteration = pipeline.state.iteration + 1
      ]_vars


-----------------------------------------------------------------------------
(* Properties of AgentPipeline.run: termination *)

\* C32: when the configuration holds a max-iterations condition and every
\* call into the agent returns or raises in finite time, run eventually
\* returns its result bundle, whatever Result on_error returns.
C32_RunTerminates ==
    <>(pipeline.pc = "returned")


-----------------------------------------------------------------------------
(* Properties of CompositeAgent: what a completed run means *)

\* the ids of the steps of a, in list order
StepIds(a) == [k \in 1 .. Len(a.steps) |-> a.steps[k].step_id]

\* C33: when the run of a sequential CompositeAgent has returned with the
\* final status completed, completed_steps lists all its steps and every
\* step's nested run ended completed, whatever max_iterations the
\* composite's own configuration has.
C33_CompletedMeansAllSteps ==
    (/\ pipeline.pc = "returned"
     /\ pipeline.agent.workflow_mode = "sequential"
     /\ pipeline.bundle.pipeline_status.final_status = "completed")
    => /\ pipeline.agent.completed_steps = StepIds(pipeline.agent)
       /\ \A k \in 1 .. Len(pipeline.agent.steps) :
             StepEnded(pipeline.agent, pipeline.agent.steps[k].step_id, "completed")


-----------------------------------------------------------------------------
(* Properties of AgentPipeline.run: the result bundle *)

\* C34: in every result bundle run returns, on the normal path and on the
\* path of the outer exception handler, pipeline_status.total_iterations
\* equals final_state.iteration.
C34_TotalIterationsIsFinalIteration ==
    pipeline.pc = "returned"
    => pipeline.bundle.pipeline_status.total_iterations
          = pipeline.bundle.final_state.iteration


-----------------------------------------------------------------------------
(* Properties of AgentPipeline.run: status conditions *)

\* the configuration of p holds a condition of this type
HasCondition(p, type) ==
    \E k \in 1 .. Len(p.agent.config.terminal_conditions) :
       p.agent.config.terminal_conditions[k].type = type

\* C35: after an iteration whose Result is not terminal and has the status
\* completed, a success-status condition stops the run at the
\* post-iteration check; likewise an error-status condition after a Result
\* with the status failed.
C35_StatusConditionStopsRun ==
    [][ IterationHandled
        => /\ (HasCondition(pipeline, "success_status")
                 /\ pipeline'.last.status = "completed")
               => pipeline'.pc = "finalize" /\ pipeline'.exit = "post_condition"
           /\ (HasCondition(pipeline, "error_status")
                 /\ pipeline'.last.status = "failed")
               => pipeline'.pc = "finalize" /\ pipeline'.exit = "post_condition"
      ]_vars


-----------------------------------------------------------------------------
(* Properties of CompositeAgent: completed_steps and failed_steps *)

\* no element of list occurs in it twice
NoDuplicates(list) ==
    \A j, k \in 1 .. Len(list) : list[j] = list[k] => j = k

\* C36: in every state of a CompositeAgent, in all three modes,
\* completed_steps and failed_steps hold no step id twice, and no step id
\* is in both.
C36_StepListsAreSets ==
    pipeline.agent.kind = "composite"
    => /\ NoDuplicates(pipeline.agent.completed_steps)
       /\ NoDuplicates(pipeline.agent.failed_steps)
       /\ \A k \in 1 .. Len(pipeline.agent.steps) :
             ~(/\ Contains(pipeline.agent.completed_steps, pipeline.agent.steps[k].step_id)
               /\ Contains(pipeline.agent.failed_steps, pipeline.agent.steps[k].step_id))


-----------------------------------------------------------------------------
(* Properties of CompositeAgent: the initialization of the steps' agents *)

\* C37: during one run of a CompositeAgent, when a step agent's first
\* execute_iteration has been called, its initialize had been called
\* exactly once; and the agent of a step that was never selected has been
\* initialized at most once.
C37_StepAgentInitializedOnce ==
    [][ \A mode \in {"sequential", "conditional", "loop"} :
          \A k \in 1 .. Len(pipeline.agent.steps) :
             LET before == pipeline.agent.steps[k].agent
                 after  == pipeline'.agent.steps[k].agent
             IN  /\ (/\ CompositeIteration(mode)
                     /\ StepRan(pipeline.agent, pipeline'.agent, k)
                     /\ before.iteration_count = 0
                     /\ after.iteration_count > 0)
                    => after.n_initialize = 1
                 /\ (/\ CompositeIteration(mode)
                     /\ pipeline.agent.steps[k].step_id
                           \notin DOMAIN pipeline'.agent.step_results)
                    => after.n_initialize <= 1
      ]_vars


-----------------------------------------------------------------------------
\* A fresh AgentState moved by advance_iteration and rollback_to_iteration
\* only, with writes of the mapping in between.
NextRollback ==
    \/ Set
    \/ AdvanceIteration
    \/ RollbackToIteration

SpecRollback == Init /\ [][NextRollback]_vars

\* C38: in every state reachable from a fresh AgentState by advance_iteration
\* and rollback_to_iteration calls, the snapshot at position k of history
\* (counted from 0) has iteration number k, so no two snapshots share one.
C38_SnapshotPositionIsIteration ==
    \A k \in 1 .. Len(state.history) : state.history[k].iteration = k - 1


-----------------------------------------------------------------------------
(* Properties of CompositeAgent: a step stopped by its iteration bound *)

\* C39: a step whose nested run stops because its max-iterations condition
\* matched, the step's agent never returning a terminal Result, ends with the
\* nested final status completed and is recorded by the composite as a
\* completed step: its name is appended to completed_steps and not to
\* failed_steps, the nested final data is merged under "<name>_result", and
\* in sequential mode the cursor advances.
C39_BoundedStepCompletes ==
    [][ \A mode \in {"sequential", "conditional", "loop"} :
          \A k \in 1 .. Len(pipeline.agent.steps) :
             LET a == pipeline.agent
                 b == pipeline'.agent
                 name == a.steps[k].step_id
             IN  (/\ CompositeIteration(mode)
                  /\ k = step_to_run(a, pipeline.state)
                  /\ a.steps[k].agent.kind = "stub"
                  /\ pipeline' = loop_pass(pipeline, Pass(Run(<<>>))))
                 => /\ StepEnded(b, name, "completed")
                    /\ b.completed_steps = Append(a.completed_steps, name)
                    /\ b.failed_steps = a.failed_steps
                    /\ (name \o "_result") \in DOMAIN pipeline'.state.data
                    /\ pipeline'.state.data[name \o "_result"] =
                           b.step_results[name].final_state.data
                    /\ mode = "sequential"
                          => b.current_step_index = a.current_step_index + 1
      ]_vars

\* a sequential composite whose first step's agent returned running Results
\* until its iteration bound and whose cursor is at the second step
C39_Witness ==
    /\ pipeline.pc = "loop"
    /\ pipeline.agent.workflow_mode = "sequential"
    /\ Len(pipeline.agent.steps) = 3
    /\ pipeline.n_exec = 1
    /\ pipeline.agent.completed_steps = <<"A">>
    /\ pipeline.agent.failed_steps = <<>>
    /\ pipeline.agent.current_step_index = 1
    /\ pipeline.agent.step_results["A"].final_state.iteration = StepIter
    /\ pipeline.agent.step_results["A"].final_state.data = EmptyDict
    /\ pipeline.agent.step_results["A"].pipeline_status.final_status = "completed"
    /\ pipeline.agent.steps[1].agent.iteration_count = StepIter
    /\ "A_result" \in DOMAIN pipeline.state.data


-----------------------------------------------------------------------------
(* Properties of CompositeAgent: the status the composite reports *)

\* C40: in every result bundle of a normally finalized CompositeAgent run,
\* the composite's own reported status, agent_results.final_status, equals
\* pipeline_status.final_status: failed after a step failure, completed
\* when the run ends completed.
C40_CompositeStatusIsFinalStatus ==
    (/\ pipeline.pc = "returned"
     /\ pipeline.exit # "pipeline_error"
     /\ pipeline.agent.kind = "composite")
    => pipeline.bundle.agent_results.final_status =
           pipeline.bundle.pipeline_status.final_status

=============================================================================
